---- MODULE Spec2Model ----
(***************************************************************************)
(* Resilience supervisor of the furnace monitor firmware:                  *)
(*   boot.py            boot counter, failsafe branch, start of run_monitor *)
(*   main.py            run_monitor: init / monitor / crash-restart loop    *)
(*   furnace_monitor.py FurnaceMonitor.init, cleanup, send_data, monitor    *)
(*   ads1115.py         ADS1115 single-shot reads and capture (SpecAds)     *)
(*   max6675.py         MAX6675 read timing and read_safe (SpecTc)         *)
(*   furnace_monitor.py analyze_flame, read_control_signal,                 *)
(*                      read_pressure_sensors, _fft (SpecSense)             *)
(*   main.py            the time between watchdog feeds (SpecWdt)           *)
(* The firmware is one synchronous thread; pc is its position.  Every      *)
(* outcome of a bus, network or storage call that the code handles is a    *)
(* nondeterministic choice of the action that makes the call.              *)
(***************************************************************************)
EXTENDS Integers, Sequences, FiniteSets, TLC

VARIABLES
    pc,                 \* position of the single thread of control
    rtc_mem,            \* RTC retained memory: the encoded boot counter (digits)
    boot_count,         \* boot.py: boot_count
    wifi_ok,            \* boot.py: wifi_ok
    webrepl_started,    \* boot.py: webrepl.start() has been called in this boot
    credential,         \* boot.py 45: PASS as the failsafe branch imported it,
                        \* "none" while it has not tried
    restart_count,      \* main.py: restart_count
    fm,                 \* the FurnaceMonitor object: which handles are not None
    init_caller,        \* who called fm.init: "run_monitor" | "recovery" | "none"
    max_retries,        \* init(max_retries)
    attempt,            \* init: loop index of the subsystem loop in progress
    sleeps,             \* init: backoff waits (seconds) of the loop in progress
    consecutive_errors, \* monitor: consecutive_errors
    loop_success,       \* monitor: loop_success
    res,                \* monitor: outcome of each step of the iteration in progress
    prev_errors,        \* consecutive_errors when the iteration in progress started
    monitored,          \* monitor() has been entered on the current FurnaceMonitor
    cleanup_ran,        \* cleanup() has been called on the current FurnaceMonitor
    stop_seen,          \* a KeyboardInterrupt has been raised since this boot
    streak,             \* history: boots started since the persisted counter
                        \* was last cleared, or Upset
    fed,                \* monitor: outcomes of the watchdog.feed() calls made
                        \* since the iteration started / the sleep began
    sleep_remaining,    \* monitor: sleep_remaining, in ms
    chunks,             \* monitor: the sleep chunks (ms) of the sleep in progress
    vals,               \* monitor: the iteration's locals handed to send_data
    sent,               \* send_data: the records handed to sendto() in this
                        \* iteration, in order
    a_pc,               \* ADS1115: position inside the driver call in progress
    a_call,             \* ADS1115: the call in progress, or the last one made
    a_gain,             \* ADS1115: self._gain
    a_rate,             \* ADS1115: self._rate
    a_writes,           \* ADS1115: config words written by this call, in order
    a_polled,           \* ADS1115: this call has polled the config register
    a_readlog,          \* ADS1115: conversion-register reads of this call, in
                        \* order: the raw word read, or BusError
    a_elapsed,          \* ADS1115: _wait_ready: ms since start
    a_ready_at,         \* ADS1115: _wait_ready: when a poll saw the ready bit
    a_results,          \* ADS1115: capture: results
    a_consec,           \* ADS1115: capture: consecutive_errors
    a_last_good,        \* ADS1115: capture: last_good_value
    a_restore,          \* ADS1115: capture: outcome of the restoring write
    a_outcome,          \* ADS1115: how the call ended
    a_value,            \* ADS1115: what the call returned
    t_now,              \* MAX6675: time.ticks_ms()
    t_probe,            \* MAX6675: per probe instance: made, _last_read, and
                        \* when its last bus read was made and how long after
                        \* the one before
    t_call,             \* MAX6675: the last constructor or read_safe call
    s_op,               \* FurnaceMonitor: the interpreter function called last
    s_in,               \* FurnaceMonitor: what it was given
    s_out,              \* FurnaceMonitor: what it returned
    s_prev,             \* FurnaceMonitor: voltage and result of the
                        \* read_control_signal call made just before, if any
    w_pc,               \* watchdog timing: position in run_monitor
    w_caller,           \* watchdog timing: who called init
    w_retries,          \* watchdog timing: init(max_retries)
    w_attempt,          \* watchdog timing: init: loop index
    w_link,             \* watchdog timing: self.wifi_connected
    w_sleep,            \* watchdog timing: monitor: sleep_remaining, in ms
    w_unfed             \* watchdog timing: ms since the watchdog was armed or
                        \* last fed, up to the timeout

vars == <<pc, rtc_mem, boot_count, wifi_ok, webrepl_started, credential,
          restart_count, fm,
          init_caller, max_retries, attempt, sleeps, consecutive_errors,
          loop_success, res, prev_errors, monitored, cleanup_ran, stop_seen,
          streak, fed, sleep_remaining, chunks, vals, sent,
          a_pc, a_call, a_gain, a_rate, a_writes, a_polled, a_readlog,
          a_elapsed, a_ready_at, a_results, a_consec, a_last_good, a_restore,
          a_outcome, a_value, t_now, t_probe, t_call, s_op, s_in, s_out,
          s_prev, w_pc, w_caller, w_retries, w_attempt, w_link, w_sleep,
          w_unfed>>

(***************************************************************************)
(* Bounds of the model (not program constants).                            *)
(***************************************************************************)
\* restart_count is unbounded in the code; the model stops restarting here.
MaxRestarts == 1
\* the longest capture the model makes (the flame capture takes 512)
MaxSamples == 11
\* consecutive_errors is unbounded while recovery keeps failing; the model
\* lets it run this far past RECOVERY_THRESHOLD.
MaxOverrun == 1
\* a reset between the counter write and the failsafe branch lets the stored
\* counter pass FAILSAFE_BOOTS + 1; the model allows such resets up to here.
MaxBootCount == 5

(***************************************************************************)
(* Program constants.                                                      *)
(***************************************************************************)
\* boot.py: if boot_count > 3
FAILSAFE_BOOTS == 3
\* FurnaceMonitor.init(self, max_retries=3)
DEFAULT_MAX_RETRIES == 3
\* mutant of RECOVERY_MAX_RETRIES: recovery calls init() with its default
RecoveryRetriesDefault == DEFAULT_MAX_RETRIES

\* monitor: self.init(max_retries=1)
RECOVERY_MAX_RETRIES == 1
\* monitor: if consecutive_errors >= 10
RECOVERY_THRESHOLD == 10
\* init: time.sleep(1) between UDP socket attempts
UDP_RETRY_SLEEP == 1
\* boot.py: 4 <= len(PASS) <= 9
PASS_MIN_LEN == 4
PASS_MAX_LEN == 9
\* main.py: fm.monitor(duration_sec=None, interval_sec=1, ...), in ms
INTERVAL_MS == 1000
\* monitor: sleep_chunk = min(sleep_remaining, 0.5), in ms
SLEEP_CHUNK_MS == 500

(***************************************************************************)
(* The persisted counter is stored as the bytes of its decimal text:       *)
(* rtc.memory(str(boot_count).encode()) and int(boot_data.decode()).       *)
(***************************************************************************)
RECURSIVE StrEncode(_)
StrEncode(n) ==
    IF n < 10 THEN <<n>> ELSE Append(StrEncode(n \div 10), n % 10)

RECURSIVE IntDecode(_)
IntDecode(s) ==
    IF Len(s) = 1 THEN s[1]
    ELSE 10 * IntDecode(SubSeq(s, 1, Len(s) - 1)) + s[Len(s)]

\* mutant of ReadBootCount: the stored counter is never read back
ReadBootCountAlwaysZero(mem, readok) == 0

\* boot.py: int(boot_data.decode()) if boot_data else 0; a failed read gives 0
ReadBootCount(mem, readok) ==
    IF ~readok THEN 0
    ELSE IF mem = <<>> THEN 0
    ELSE IntDecode(mem)

\* b'0'
ZeroBytes == <<0>>

\* streak once the count of boots and the persisted counter may differ: a
\* counter read failed, a reset fell between the counter write (boot.py 26)
\* and the clearing write of the failsafe branch (35), or the clearing write
\* after init (main.py 64) failed
Upset == -1

\* FurnaceMonitor.__init__: every handle None, wifi_connected False
NewFurnaceMonitor ==
    [flame_i2c |-> FALSE, flame_adc |-> FALSE,
     control_i2c |-> FALSE, control_adc |-> FALSE,
     recup_spi |-> FALSE, recup_bottom |-> FALSE, recup_top |-> FALSE,
     wifi_connected |-> FALSE, udp_sock |-> FALSE]

\* monitor: the per-iteration defaults set at the top of the loop body
NoResults ==
    [wifi |-> "none", ctrl |-> "none", press |-> "none", recup |-> "none",
     bottom |-> "none", top |-> "none", flame |-> "none", send |-> "none",
     recovery |-> "none"]

(***************************************************************************)
(* ads1115.py: register constants and the driver object                    *)
(***************************************************************************)
\* _OS_START = 0x8000, _OS_READY = 0x8000
OS_START == 32768
OS_READY == 32768
\* _MUX_DIFF_01 = 0x0000 ... _MUX_DIFF_23 = 0x3000, _MUX_SINGLE_0 = 0x4000
MUX_DIFF_01 == 0
MUX_DIFF_03 == 4096
MUX_DIFF_13 == 8192
MUX_DIFF_23 == 12288
MUX_SINGLE_0 == 16384
\* _PGA_4096 = 0x0200, _PGA_2048 = 0x0400
PGA_4096 == 512
PGA_2048 == 1024
\* _MODE_CONTINUOUS = 0x0000, _MODE_SINGLE = 0x0100
MODE_CONTINUOUS == 0
MODE_SINGLE == 256
\* _DR_128 = 0x0080, _DR_860 = 0x00E0
DR_128 == 128
DR_860 == 224
\* _COMP_DISABLE = 0x0003
COMP_DISABLE == 3
\* _wait_ready(self, timeout_ms=200)
WAIT_TIMEOUT_MS == 200
\* time.sleep_ms(1) between two polls
POLL_SLEEP_MS == 1
\* capture: if consecutive_errors >= 10
CAPTURE_MAX_ERRORS == 10

\* a bus transaction that raised OSError, as an entry of a_readlog
BusError == -1

\* no call made yet
NoCall == [op |-> "none", channel |-> 0, pos |-> 0, neg |-> 0, samples |-> 0]

\* the per-call state before the call's first statement
CallStart ==
    [writes |-> <<>>, polled |-> FALSE, readlog |-> <<>>, elapsed |-> 0,
     ready_at |-> -1, results |-> <<>>, consec |-> 0, last_good |-> 0,
     restore |-> "none", outcome |-> "running", value |-> <<>>]

\* ADS1115.__init__: _gain = _PGA_4096, _rate = _DR_860; no call in progress
AdsIdle ==
    /\ a_pc = "idle"
    /\ a_call = NoCall
    /\ a_gain = PGA_4096
    /\ a_rate = DR_860
    /\ a_writes = CallStart.writes
    /\ a_polled = CallStart.polled
    /\ a_readlog = CallStart.readlog
    /\ a_elapsed = CallStart.elapsed
    /\ a_ready_at = CallStart.ready_at
    /\ a_results = CallStart.results
    /\ a_consec = CallStart.consec
    /\ a_last_good = CallStart.last_good
    /\ a_restore = CallStart.restore
    /\ a_outcome = "none"
    /\ a_value = CallStart.value

(***************************************************************************)
(* max6675.py: the two probes of the recuperator                           *)
(***************************************************************************)
\* furnace_monitor.py: recup_bottom, recup_top, two MAX6675 on one SPI bus
Probes == {"bottom", "top"}

\* MAX6675.__init__ 48: _last_read = 0; no bus read made yet (-1)
NewProbe == [made |-> FALSE, last_read |-> 0, bus_at |-> -1, gap |-> -1]

\* no call made yet
NoTcCall ==
    [op |-> "none", probe |-> "none", since |-> 0, start |-> 0, wait |-> 0,
     frame |-> 0, raised |-> FALSE,
     result |-> [temp_c |-> 0, temp_f |-> 0, connected |-> FALSE]]

\* before the first MAX6675 is constructed
TcIdle ==
    /\ t_now = 0
    /\ t_probe = [p \in Probes |-> NewProbe]
    /\ t_call = NoTcCall

\* no interpreter function called yet
NoSenseCall == [op |-> "none"]

SenseIdle ==
    /\ s_op = "none"
    /\ s_in = <<>>
    /\ s_out = NoSenseCall
    /\ s_prev = NoSenseCall

\* run_monitor has not armed its watchdog yet
WdtIdle ==
    /\ w_pc = "start"
    /\ w_caller = "none"
    /\ w_retries = 0
    /\ w_attempt = 0
    /\ w_link = FALSE
    /\ w_sleep = 0
    /\ w_unfed = 0

\* monitor 701-714: the defaults of the values handed to send_data
DefaultVals ==
    [ctrl |-> "default", press |-> "default",
     recup_bottom_ok |-> FALSE, recup_top_ok |-> FALSE, flame |-> "error"]

\* the main program before its first monitoring cycle
CycleInit ==
    /\ fed = <<>>
    /\ sleep_remaining = 0
    /\ chunks = <<>>
    /\ vals = DefaultVals
    /\ sent = <<>>

Init ==
    /\ pc = "boot"
    /\ rtc_mem = <<>>
    /\ boot_count = 0
    /\ wifi_ok = FALSE
    /\ webrepl_started = FALSE
    /\ credential = "none"
    /\ restart_count = 0
    /\ fm = NewFurnaceMonitor
    /\ init_caller = "none"
    /\ max_retries = DEFAULT_MAX_RETRIES
    /\ attempt = 0
    /\ sleeps = <<>>
    /\ consecutive_errors = 0
    /\ loop_success = TRUE
    /\ res = NoResults
    /\ prev_errors = 0
    /\ monitored = FALSE
    /\ cleanup_ran = FALSE
    /\ stop_seen = FALSE
    /\ streak = 0
    /\ CycleInit
    /\ AdsIdle
    /\ TcIdle
    /\ SenseIdle
    /\ WdtIdle

\* everything but the retained memory is lost by a reset
VolatileReset ==
    /\ boot_count' = 0
    /\ wifi_ok' = FALSE
    /\ webrepl_started' = FALSE
    /\ credential' = "none"
    /\ restart_count' = 0
    /\ fm' = NewFurnaceMonitor
    /\ init_caller' = "none"
    /\ max_retries' = DEFAULT_MAX_RETRIES
    /\ attempt' = 0
    /\ sleeps' = <<>>
    /\ consecutive_errors' = 0
    /\ loop_success' = TRUE
    /\ res' = NoResults
    /\ prev_errors' = 0
    /\ monitored' = FALSE
    /\ cleanup_ran' = FALSE
    /\ stop_seen' = FALSE
    /\ fed' = <<>>
    /\ sleep_remaining' = 0
    /\ chunks' = <<>>
    /\ vals' = DefaultVals
    /\ sent' = <<>>

bootVars == <<boot_count, wifi_ok, webrepl_started, credential>>
initVars == <<init_caller, max_retries, attempt, sleeps>>
iterVars == <<consecutive_errors, loop_success, res, prev_errors>>
fmGhost == <<monitored, cleanup_ran, stop_seen>>
cycleVars == <<fed, sleep_remaining, chunks, vals, sent>>
adsVars == <<a_pc, a_call, a_gain, a_rate, a_writes, a_polled, a_readlog,
             a_elapsed, a_ready_at, a_results, a_consec, a_last_good,
             a_restore, a_outcome, a_value>>
tcVars == <<t_now, t_probe, t_call>>
senseVars == <<s_op, s_in, s_out, s_prev>>
wdtVars == <<w_pc, w_caller, w_retries, w_attempt, w_link, w_sleep, w_unfed>>
mainVars == <<pc, rtc_mem, bootVars, restart_count, fm, initVars, iterVars,
              fmGhost, streak, cycleVars>>

(***************************************************************************)
(* boot.py                                                                 *)
(***************************************************************************)
\* boot.py 17-28: read, increment and store the boot counter
BootCounter ==
    /\ pc = "boot"
    /\ \E readok \in BOOLEAN :
          /\ boot_count' = ReadBootCount(rtc_mem, readok) + 1
          /\ rtc_mem' = StrEncode(ReadBootCount(rtc_mem, readok) + 1)
          /\ streak' = IF readok /\ streak # Upset /\ streak < MaxBootCount
                        THEN streak + 1 ELSE Upset
    /\ pc' = "boot_check"
    /\ UNCHANGED <<wifi_ok, webrepl_started, credential, restart_count, fm,
                   initVars, iterVars, fmGhost>>
    /\ UNCHANGED cycleVars
    /\ UNCHANGED <<adsVars, tcVars, senseVars, wdtVars>>

\* mutant of EnterFailsafe: the threshold is off by one (>= instead of >)
EnterFailsafeOffByOne(bc) == bc >= FAILSAFE_BOOTS

\* boot.py 31: if boot_count > 3
EnterFailsafe(bc) == bc > FAILSAFE_BOOTS

\* mutant of BootBranch: the failsafe branch forgets rtc.memory(b'0')
BootBranchNoReset ==
    /\ pc = "boot_check"
    /\ pc' = IF EnterFailsafe(boot_count) THEN "fs_net" ELSE "boot_net"
    /\ UNCHANGED <<rtc_mem, bootVars, restart_count, fm, initVars, iterVars,
                   fmGhost>>
    /\ UNCHANGED cycleVars
    /\ UNCHANGED <<streak, adsVars, tcVars, senseVars, wdtVars>>

\* boot.py 31-35 / 66-68: the failsafe branch resets the counter on entry
BootBranch ==
    /\ pc = "boot_check"
    /\ IF EnterFailsafe(boot_count)
       THEN /\ rtc_mem' = ZeroBytes
            /\ streak' = 0
            /\ pc' = "fs_net"
       ELSE /\ pc' = "boot_net"
            /\ UNCHANGED <<rtc_mem, streak>>
    /\ UNCHANGED <<bootVars, restart_count, fm, initVars, iterVars, fmGhost>>
    /\ UNCHANGED cycleVars
    /\ UNCHANGED <<adsVars, tcVars, senseVars, wdtVars>>

\* webrepl_cfg.PASS as the boot sees it; "missing" is a failed import
Passwords == {"CHANGEME", "abc", "four", "secret", "ninechars", "tencharsxx",
              "muchtoolong", "missing"}

PassLen(p) ==
    CASE p = "CHANGEME" -> 8
      [] p = "abc" -> 3
      [] p = "four" -> 4
      [] p = "secret" -> 6
      [] p = "ninechars" -> 9
      [] p = "tencharsxx" -> 10
      [] p = "muchtoolong" -> 11
      [] OTHER -> 0

\* mutant of CredentialOK: the placeholder is not refused
CredentialOKPlaceholder(p) ==
    /\ p # "missing"
    /\ PASS_MIN_LEN <= PassLen(p)
    /\ PassLen(p) <= PASS_MAX_LEN

\* boot.py 45-54 and 97-106: the credential gate before webrepl.start()
CredentialOK(p) ==
    /\ p # "missing"
    /\ p # "CHANGEME"
    /\ PASS_MIN_LEN <= PassLen(p)
    /\ PassLen(p) <= PASS_MAX_LEN

\* setup_wifi: True, False, or an error raised outside its own try block
WifiOutcomes == {"up", "down", "raise"}

\* boot.py 37-58: failsafe network bring-up and recovery channel; the result
\* of setup_wifi is not tested, only an exception skips the channel
FailsafeNet ==
    /\ pc = "fs_net"
    /\ \E w \in WifiOutcomes, p \in Passwords, started \in BOOLEAN :
          /\ credential' = IF w = "raise" THEN "none" ELSE p
          /\ webrepl_started' = (w # "raise" /\ CredentialOK(p) /\ started)
    /\ pc' = "fs_loop"
    /\ UNCHANGED <<rtc_mem, boot_count, wifi_ok, restart_count, fm, initVars,
                   iterVars, fmGhost>>
    /\ UNCHANGED cycleVars
    /\ UNCHANGED <<streak, adsVars, tcVars, senseVars, wdtVars>>

\* boot.py 62-64: while True: wdt.feed(); time.sleep(30)
FailsafeLoop ==
    /\ pc = "fs_loop"
    /\ pc' = "fs_loop"
    /\ UNCHANGED <<rtc_mem, bootVars, restart_count, fm, initVars, iterVars,
                   fmGhost>>
    /\ UNCHANGED cycleVars
    /\ UNCHANGED <<streak, adsVars, tcVars, senseVars, wdtVars>>

\* boot.py 66-116: normal boot: network, then the remote console if it is up
BootNet ==
    /\ pc = "boot_net"
    /\ \E w \in WifiOutcomes, p \in Passwords, started \in BOOLEAN :
          /\ wifi_ok' = (w = "up")
          /\ webrepl_started' = (w = "up" /\ CredentialOK(p) /\ started)
    /\ pc' = "boot_run"
    /\ UNCHANGED <<rtc_mem, boot_count, credential, restart_count, fm, initVars,
                   iterVars, fmGhost>>
    /\ UNCHANGED cycleVars
    /\ UNCHANGED <<streak, adsVars, tcVars, senseVars, wdtVars>>

\* boot.py 120-122 and main.py 36-41: import main, call run_monitor(rtc=rtc).
\* boot.py's globals are not read again once run_monitor runs: the model
\* forgets them here
BootRun ==
    /\ pc = "boot_run"
    /\ \E imported \in BOOLEAN :
          pc' = IF imported THEN "rm_top" ELSE "boot_fatal"
    /\ restart_count' = 0
    /\ boot_count' = 0
    /\ wifi_ok' = FALSE
    /\ webrepl_started' = FALSE
    /\ UNCHANGED <<rtc_mem, credential, fm, initVars, iterVars, fmGhost>>
    /\ UNCHANGED cycleVars
    /\ UNCHANGED <<streak, adsVars, tcVars, senseVars, wdtVars>>

\* boot.py 123-136: run_monitor could not start: machine.reset()
BootFatal ==
    /\ pc = "boot_fatal"
    /\ pc' = "boot"
    /\ VolatileReset
    /\ UNCHANGED rtc_mem
    /\ UNCHANGED <<streak, adsVars, tcVars, senseVars, wdtVars>>

\* the hardware watchdog (or any other reset) restarts the device at any
\* point; the retained memory survives
DeviceReset ==
    /\ pc \notin {"boot", "boot_fatal"}
    /\ pc = "boot_check" => boot_count < MaxBootCount
    /\ pc' = "boot"
    /\ VolatileReset
    /\ UNCHANGED rtc_mem
    /\ streak' = IF pc = "boot_check" /\ EnterFailsafe(boot_count)
                  THEN Upset ELSE streak
    /\ UNCHANGED <<adsVars, tcVars, senseVars, wdtVars>>

(***************************************************************************)
(* furnace_monitor.py: FurnaceMonitor.init(max_retries)                    *)
(***************************************************************************)
InitPcs == {"init_wifi", "init_flame", "init_control", "init_recup", "init_udp"}

\* time.sleep(2 ** attempt)
Backoff(a) == 2 ^ a

\* if attempt < max_retries - 1: (sleep and try again) else: (give up)
LastAttempt == ~(attempt < max_retries - 1)

\* the subsystem loop ends (break, or range exhausted without a raise)
InitNext(nextpc) ==
    /\ pc' = nextpc
    /\ attempt' = 0
    /\ sleeps' = <<>>
    /\ UNCHANGED <<init_caller, max_retries, consecutive_errors, res>>

\* next turn of the same for-loop, after waiting `wait` seconds (0: no wait)
InitRetry(wait) ==
    /\ pc' = pc
    /\ attempt' = attempt + 1
    /\ sleeps' = IF wait = 0 THEN sleeps ELSE Append(sleeps, wait)
    /\ UNCHANGED <<init_caller, max_retries, consecutive_errors, res>>

\* init returns (ok) or raises (~ok) to its caller: run_monitor (main.py
\* 57-58 / 82) or the recovery block of monitor (furnace_monitor.py 767-773)
InitReturn(ok) ==
    /\ init_caller' = "none"
    /\ max_retries' = DEFAULT_MAX_RETRIES
    /\ attempt' = 0
    /\ sleeps' = <<>>
    /\ IF init_caller = "run_monitor"
       THEN /\ pc' = IF ok THEN "rm_reset" ELSE "rm_crash"
            /\ UNCHANGED <<consecutive_errors, res>>
       ELSE /\ pc' = "m_display"
            /\ consecutive_errors' = IF ok THEN 0 ELSE consecutive_errors
            /\ res' = [res EXCEPT !.recovery = IF ok THEN "ok" ELSE "failed"]

\* init 229-241: network link; a False result retries at once, only a raised
\* error waits 2^attempt; the loop never raises
InitWifi ==
    /\ pc = "init_wifi"
    /\ \E w \in WifiOutcomes :
          /\ fm' = [fm EXCEPT !.wifi_connected =
                                 IF w = "raise" THEN @ ELSE (w = "up")]
          /\ IF w = "up" THEN InitNext("init_flame")
             ELSE IF w = "down"
                  THEN IF attempt + 1 < max_retries
                       THEN InitRetry(0) ELSE InitNext("init_flame")
                  ELSE IF ~LastAttempt
                       THEN InitRetry(Backoff(attempt))
                       ELSE InitNext("init_flame")
    /\ UNCHANGED <<rtc_mem, bootVars, restart_count, loop_success,
                   prev_errors, fmGhost>>
    /\ UNCHANGED cycleVars
    /\ UNCHANGED <<streak, adsVars, tcVars, senseVars, wdtVars>>

\* I2C() raises | scan misses the device | ADS1115.init raises | all fine
AdcOutcomes == {"ok", "bus", "scan", "adc"}

\* init 245-268: flame converter (critical)
InitFlame ==
    /\ pc = "init_flame"
    /\ \E r \in AdcOutcomes :
          /\ fm' = [fm EXCEPT !.flame_i2c = @ \/ (r # "bus"),
                              !.flame_adc = @ \/ (r \in {"ok", "adc"})]
          /\ IF r = "ok" THEN InitNext("init_control")
             ELSE IF ~LastAttempt THEN InitRetry(Backoff(attempt))
             ELSE InitReturn(FALSE)
    /\ UNCHANGED <<rtc_mem, bootVars, restart_count, loop_success,
                   prev_errors, fmGhost>>
    /\ UNCHANGED cycleVars
    /\ UNCHANGED <<streak, adsVars, tcVars, senseVars, wdtVars>>

\* init 270-293: control converter (critical)
InitControl ==
    /\ pc = "init_control"
    /\ \E r \in AdcOutcomes :
          /\ fm' = [fm EXCEPT !.control_i2c = @ \/ (r # "bus"),
                              !.control_adc = @ \/ (r \in {"ok", "adc"})]
          /\ IF r = "ok" THEN InitNext("init_recup")
             ELSE IF ~LastAttempt THEN InitRetry(Backoff(attempt))
             ELSE InitReturn(FALSE)
    /\ UNCHANGED <<rtc_mem, bootVars, restart_count, loop_success,
                   prev_errors, fmGhost>>
    /\ UNCHANGED cycleVars
    /\ UNCHANGED <<streak, adsVars, tcVars, senseVars, wdtVars>>

\* all fine | SPI() or the first MAX6675() raises (no probe object made) |
\* the second MAX6675() raises (only the bottom probe object made) |
\* the test-read block raises (both probe objects made)
RecupOutcomes == {"ok", "spi", "top", "test"}

\* init 295-332: thermocouple bus (non-critical): a failed attempt deinits
\* the bus and clears recup_spi, the probe objects made so far stay
InitRecup ==
    /\ pc = "init_recup"
    /\ \E r \in RecupOutcomes :
          /\ fm' = [fm EXCEPT !.recup_spi = (r = "ok"),
                              !.recup_bottom = @ \/ (r \in {"ok", "top", "test"}),
                              !.recup_top = @ \/ (r \in {"ok", "test"})]
          /\ IF r = "ok" THEN InitNext("init_udp")
             ELSE IF ~LastAttempt THEN InitRetry(Backoff(attempt))
             ELSE InitNext("init_udp")
    /\ UNCHANGED <<rtc_mem, bootVars, restart_count, loop_success,
                   prev_errors, fmGhost>>
    /\ UNCHANGED cycleVars
    /\ UNCHANGED <<streak, adsVars, tcVars, senseVars, wdtVars>>

\* init 334-346: telemetry socket, only with the link up; then init returns
InitUdp ==
    /\ pc = "init_udp"
    /\ IF fm.wifi_connected
       THEN \E made \in BOOLEAN :
               /\ fm' = [fm EXCEPT !.udp_sock = @ \/ made]
               /\ IF made THEN InitReturn(TRUE)
                  ELSE IF ~LastAttempt THEN InitRetry(UDP_RETRY_SLEEP)
                  ELSE InitReturn(TRUE)
       ELSE /\ InitReturn(TRUE)
            /\ UNCHANGED fm
    /\ UNCHANGED <<rtc_mem, bootVars, restart_count, loop_success,
                   prev_errors, fmGhost>>
    /\ UNCHANGED cycleVars
    /\ UNCHANGED <<streak, adsVars, tcVars, senseVars, wdtVars>>

(***************************************************************************)
(* main.py: run_monitor                                                    *)
(***************************************************************************)
\* mutant of RunMonitorTop: the boot counter is reset before fm.init()
RunMonitorTopResetsCounter ==
    /\ pc = "rm_top"
    /\ rtc_mem' = ZeroBytes
    /\ fm' = NewFurnaceMonitor
    /\ init_caller' = "run_monitor"
    /\ max_retries' = DEFAULT_MAX_RETRIES
    /\ attempt' = 0
    /\ sleeps' = <<>>
    /\ consecutive_errors' = 0
    /\ loop_success' = TRUE
    /\ res' = NoResults
    /\ prev_errors' = 0
    /\ monitored' = FALSE
    /\ cleanup_ran' = FALSE
    /\ fed' = <<>>
    /\ sleep_remaining' = 0
    /\ chunks' = <<>>
    /\ vals' = DefaultVals
    /\ sent' = <<>>
    /\ pc' = "init_wifi"
    /\ UNCHANGED <<bootVars, restart_count, stop_seen>>
    /\ UNCHANGED <<streak, adsVars, tcVars, senseVars, wdtVars>>

\* main.py 43-57: top of the restart loop: a new FurnaceMonitor, fm.init()
RunMonitorTop ==
    /\ pc = "rm_top"
    /\ fm' = NewFurnaceMonitor
    /\ init_caller' = "run_monitor"
    /\ max_retries' = DEFAULT_MAX_RETRIES
    /\ attempt' = 0
    /\ sleeps' = <<>>
    /\ consecutive_errors' = 0
    /\ loop_success' = TRUE
    /\ res' = NoResults
    /\ prev_errors' = 0
    /\ monitored' = FALSE
    /\ cleanup_ran' = FALSE
    /\ fed' = <<>>
    /\ sleep_remaining' = 0
    /\ chunks' = <<>>
    /\ vals' = DefaultVals
    /\ sent' = <<>>
    /\ pc' = "init_wifi"
    /\ UNCHANGED <<rtc_mem, bootVars, restart_count, stop_seen>>
    /\ UNCHANGED <<streak, adsVars, tcVars, senseVars, wdtVars>>

\* main.py 58-70 and monitor 674-676: init returned: feed, reset the boot
\* counter (a failed write is caught), enter monitor()
PostInit ==
    /\ pc = "rm_reset"
    /\ \E wrote \in BOOLEAN :
          /\ rtc_mem' = IF wrote THEN ZeroBytes ELSE rtc_mem
          /\ streak' = IF wrote THEN 0 ELSE Upset
    /\ consecutive_errors' = 0
    /\ monitored' = TRUE
    /\ pc' = "m_iter"
    /\ UNCHANGED <<bootVars, restart_count, fm, initVars, loop_success, res,
                   prev_errors, cleanup_ran, stop_seen>>
    /\ UNCHANGED cycleVars
    /\ UNCHANGED <<adsVars, tcVars, senseVars, wdtVars>>

\* main.py 72-76: monitor() returned: count a restart, wait 1 s, loop
RunMonitorNormal ==
    /\ pc = "rm_normal"
    /\ restart_count < MaxRestarts
    /\ restart_count' = restart_count + 1
    /\ pc' = "rm_top"
    /\ UNCHANGED <<rtc_mem, bootVars, fm, initVars, iterVars, fmGhost>>
    /\ UNCHANGED cycleVars
    /\ UNCHANGED <<streak, adsVars, tcVars, senseVars, wdtVars>>

\* mutant of CrashRestart: the crash handler also clears the boot counter
CrashRestartResetsCounter ==
    /\ pc = "rm_crash"
    /\ restart_count < MaxRestarts
    /\ restart_count' = restart_count + 1
    /\ rtc_mem' = ZeroBytes
    /\ pc' = "rm_cleanup"
    /\ UNCHANGED <<bootVars, fm, initVars, iterVars, fmGhost>>
    /\ UNCHANGED cycleVars
    /\ UNCHANGED <<streak, adsVars, tcVars, senseVars, wdtVars>>

\* main.py 82-86: except Exception: count a restart
CrashRestart ==
    /\ pc = "rm_crash"
    /\ restart_count < MaxRestarts
    /\ restart_count' = restart_count + 1
    /\ pc' = "rm_cleanup"
    /\ UNCHANGED <<rtc_mem, bootVars, fm, initVars, iterVars, fmGhost>>
    /\ UNCHANGED cycleVars
    /\ UNCHANGED <<streak, adsVars, tcVars, senseVars, wdtVars>>

\* cleanup 348-404 with the first k of its five release stages done:
\* socket, flame bus, control bus, thermocouple bus, network link
Released(f, k) ==
    [flame_i2c |-> f.flame_i2c /\ k < 2, flame_adc |-> f.flame_adc /\ k < 2,
     control_i2c |-> f.control_i2c /\ k < 3,
     control_adc |-> f.control_adc /\ k < 3,
     recup_spi |-> f.recup_spi /\ k < 4,
     recup_bottom |-> f.recup_bottom /\ (k < 4 \/ ~f.recup_spi),
     recup_top |-> f.recup_top /\ (k < 4 \/ ~f.recup_spi),
     wifi_connected |-> f.wifi_connected /\ k < 5,
     udp_sock |-> f.udp_sock /\ k < 1]

CleanupStages == 5

\* mutant of Cleanup: no try/except around fm.cleanup(), so its error leaves
\* run_monitor and reaches boot.py's except Exception
CleanupUnguarded ==
    /\ pc = "rm_cleanup"
    /\ \E k \in 0..CleanupStages :
          /\ fm' = Released(fm, k)
          /\ pc' = IF k < CleanupStages THEN "boot_fatal" ELSE "rm_delay"
    /\ cleanup_ran' = TRUE
    /\ UNCHANGED <<rtc_mem, bootVars, restart_count, initVars, iterVars,
                   monitored, stop_seen>>
    /\ UNCHANGED cycleVars
    /\ UNCHANGED <<streak, adsVars, tcVars, senseVars, wdtVars>>

\* main.py 88-93: fm.cleanup(); an error out of it is caught and logged
Cleanup ==
    /\ pc = "rm_cleanup"
    /\ \E k \in 0..CleanupStages : fm' = Released(fm, k)
    /\ cleanup_ran' = TRUE
    /\ pc' = "rm_delay"
    /\ UNCHANGED <<rtc_mem, bootVars, restart_count, initVars, iterVars,
                   monitored, stop_seen>>
    /\ UNCHANGED cycleVars
    /\ UNCHANGED <<streak, adsVars, tcVars, senseVars, wdtVars>>

\* watchdog.feed() returns or raises; every caller catches the error
FeedOutcomes == {"ok", "raised"}

\* mutant of RestartDelay: the restart delay also clears the boot counter
RestartDelayClearsCounter ==
    /\ pc = "rm_delay"
    /\ \E f \in FeedOutcomes : fed' = <<f>>
    /\ rtc_mem' = ZeroBytes
    /\ pc' = "rm_top"
    /\ UNCHANGED <<bootVars, restart_count, fm, initVars, iterVars, fmGhost>>
    /\ UNCHANGED <<sleep_remaining, chunks, vals, sent>>
    /\ UNCHANGED <<streak, adsVars, tcVars, senseVars, wdtVars>>

\* main.py 95-103: one wdt.feed() whose error is swallowed (97-100), then
\* time.sleep(5) (102), which makes no call to feed(), then the loop
RestartDelay ==
    /\ pc = "rm_delay"
    /\ \E f \in FeedOutcomes : fed' = <<f>>
    /\ pc' = "rm_top"
    /\ UNCHANGED <<rtc_mem, bootVars, restart_count, fm, initVars, iterVars,
                   fmGhost>>
    /\ UNCHANGED <<sleep_remaining, chunks, vals, sent>>
    /\ UNCHANGED <<streak, adsVars, tcVars, senseVars, wdtVars>>

(***************************************************************************)
(* furnace_monitor.py: FurnaceMonitor.monitor, one action per step         *)
(***************************************************************************)
\* monitor() is left (return or raise): its locals are gone
LeaveMonitor ==
    /\ consecutive_errors' = 0
    /\ loop_success' = TRUE
    /\ res' = NoResults
    /\ prev_errors' = 0
    /\ fed' = <<>>
    /\ sleep_remaining' = 0
    /\ chunks' = <<>>
    /\ vals' = DefaultVals
    /\ sent' = <<>>

MonitorPcs == {"m_iter", "m_wifi", "m_control", "m_pressure", "m_recup",
               "m_flame", "m_send", "m_track", "m_display", "m_sleep"}

\* monitor 679-688: top of an iteration: feed the watchdog (run_monitor
\* always supplies one); an error of the feed is caught and logged
MonIter ==
    /\ pc = "m_iter"
    /\ \E f \in FeedOutcomes : fed' = <<f>>
    /\ sleep_remaining' = 0
    /\ chunks' = <<>>
    /\ prev_errors' = consecutive_errors
    /\ pc' = "m_wifi"
    /\ UNCHANGED <<rtc_mem, bootVars, restart_count, fm, initVars,
                   consecutive_errors, loop_success, res, vals, sent,
                   fmGhost>>
    /\ UNCHANGED <<streak, adsVars, tcVars, senseVars, wdtVars>>

\* monitor 690-716: try to reconnect a lost link (at most every 10 s), then
\* set the iteration's defaults
MonReconnect ==
    /\ pc = "m_wifi"
    /\ \E w \in (IF fm.wifi_connected THEN {"skip"}
                 ELSE WifiOutcomes \cup {"skip"}) :
          /\ fm' = IF w \in {"up", "down"}
                   THEN [fm EXCEPT !.wifi_connected = (w = "up")] ELSE fm
          /\ res' = [NoResults EXCEPT !.wifi = IF w = "up" THEN "up" ELSE @]
    /\ loop_success' = TRUE
    /\ vals' = DefaultVals
    /\ sent' = <<>>
    /\ fed' = <<>>
    /\ pc' = "m_control"
    /\ UNCHANGED <<rtc_mem, bootVars, restart_count, initVars,
                   consecutive_errors, prev_errors, fmGhost,
                   sleep_remaining, chunks>>
    /\ UNCHANGED <<streak, adsVars, tcVars, senseVars, wdtVars>>

\* mutant of MonControl: a failed control read skips the rest of the cycle
MonControlAbortsCycle ==
    /\ pc = "m_control"
    /\ \E ok \in BOOLEAN :
          /\ res' = [res EXCEPT !.ctrl = IF ok THEN "ok" ELSE "fail"]
          /\ vals' = [vals EXCEPT !.ctrl = IF ok THEN "read" ELSE @]
          /\ loop_success' = (loop_success /\ ok)
          /\ pc' = IF ok THEN "m_pressure" ELSE "m_track"
    /\ UNCHANGED <<fed, sleep_remaining, chunks, sent>>
    /\ UNCHANGED <<rtc_mem, bootVars, restart_count, fm, initVars,
                   consecutive_errors, prev_errors, fmGhost>>
    /\ UNCHANGED <<streak, adsVars, tcVars, senseVars, wdtVars>>

\* monitor 718-724: control read (critical)
MonControl ==
    /\ pc = "m_control"
    /\ \E ok \in BOOLEAN :
          /\ res' = [res EXCEPT !.ctrl = IF ok THEN "ok" ELSE "fail"]
          /\ vals' = [vals EXCEPT !.ctrl = IF ok THEN "read" ELSE @]
          /\ loop_success' = (loop_success /\ ok)
    /\ pc' = "m_pressure"
    /\ UNCHANGED <<fed, sleep_remaining, chunks, sent>>
    /\ UNCHANGED <<rtc_mem, bootVars, restart_count, fm, initVars,
                   consecutive_errors, prev_errors, fmGhost>>
    /\ UNCHANGED <<streak, adsVars, tcVars, senseVars, wdtVars>>

\* monitor 726-732: pressure read (non-critical); a failed read hands
\* None, None to send_data
MonPressure ==
    /\ pc = "m_pressure"
    /\ \E ok \in BOOLEAN :
          /\ res' = [res EXCEPT !.press = IF ok THEN "ok" ELSE "fail"]
          /\ vals' = [vals EXCEPT !.press = IF ok THEN "read" ELSE "null"]
    /\ pc' = "m_recup"
    /\ UNCHANGED <<fed, sleep_remaining, chunks, sent>>
    /\ UNCHANGED <<rtc_mem, bootVars, restart_count, fm, initVars,
                   consecutive_errors, loop_success, prev_errors, fmGhost>>
    /\ UNCHANGED <<streak, adsVars, tcVars, senseVars, wdtVars>>

\* mutant of RecupReadable: a probe object reads whatever became of its bus
RecupReadableWithoutBus(f, probe) == probe

\* read_recuperator_temps 584-589 with MAX6675.read_safe: a probe can report
\* connected only if its object exists and its bus is up: init deinits the
\* bus of a failed attempt (322-327) and a read on it fails, which read_safe
\* turns into (0.0, 0.0, False)
RecupReadable(f, probe) == probe /\ f.recup_spi

\* read_recuperator_temps 581-589: what one probe contributes: nothing is
\* read if its driver object is None ("absent"); otherwise read_safe either
\* fails (bus error, invalid frame, open circuit) or reports connected
ProbeOutcomes(f, probe) ==
    IF ~probe THEN {"absent"}
    ELSE IF RecupReadable(f, probe) THEN {"read_failed", "connected"}
    ELSE {"read_failed"}

\* monitor 734-739: thermocouple read (non-critical); on an error the
\* defaults (0.0, 0.0, False, False) stay
MonRecup ==
    /\ pc = "m_recup"
    /\ \/ /\ res' = [res EXCEPT !.recup = "fail"]
          /\ UNCHANGED vals
       \/ \E b \in ProbeOutcomes(fm, fm.recup_bottom),
             t \in ProbeOutcomes(fm, fm.recup_top) :
             /\ res' = [res EXCEPT !.recup = "ok", !.bottom = b, !.top = t]
             /\ vals' = [vals EXCEPT !.recup_bottom_ok = (b = "connected"),
                                     !.recup_top_ok = (t = "connected")]
    /\ pc' = "m_flame"
    /\ UNCHANGED <<fed, sleep_remaining, chunks, sent>>
    /\ UNCHANGED <<rtc_mem, bootVars, restart_count, fm, initVars,
                   consecutive_errors, loop_success, prev_errors, fmGhost>>
    /\ UNCHANGED <<streak, adsVars, tcVars, senseVars, wdtVars>>

\* monitor 741-748: flame capture and analysis (critical)
MonFlame ==
    /\ pc = "m_flame"
    /\ \E ok \in BOOLEAN :
          /\ res' = [res EXCEPT !.flame = IF ok THEN "ok" ELSE "fail"]
          /\ vals' = [vals EXCEPT !.flame = IF ok THEN "analysis" ELSE @]
          /\ loop_success' = (loop_success /\ ok)
    /\ pc' = "m_send"
    /\ UNCHANGED <<fed, sleep_remaining, chunks, sent>>
    /\ UNCHANGED <<rtc_mem, bootVars, restart_count, fm, initVars,
                   consecutive_errors, prev_errors, fmGhost>>
    /\ UNCHANGED <<streak, adsVars, tcVars, senseVars, wdtVars>>

\* send_data 613-657: no socket | link reported down | the link query itself
\* raises (outside the try) | datagram sent | building or sending it raises
SendOutcomes(f) ==
    IF ~f.udp_sock THEN {"nosock"}
    ELSE {"linkdown", "wlan_err", "sent", "send_err"}

\* what leaves send_data as an exception: the try at 622-657 catches and
\* logs every error of the build and of sendto; only 617-618 are outside it
SendRaises(o) == o = "wlan_err"

\* mutant of TelemetryRecord: the delta is computed when either probe is
\* connected
TelemetryRecordDeltaEither(v) ==
    [flame |-> v.flame, control |-> v.ctrl, pressure |-> v.press,
     bottom_f |-> IF v.recup_bottom_ok THEN "value" ELSE "null",
     top_f |-> IF v.recup_top_ok THEN "value" ELSE "null",
     delta_f |-> IF v.recup_bottom_ok \/ v.recup_top_ok
                 THEN "value" ELSE "null"]

\* send_data 624-648: the record built from the values monitor hands over
TelemetryRecord(v) ==
    [flame |-> v.flame, control |-> v.ctrl, pressure |-> v.press,
     bottom_f |-> IF v.recup_bottom_ok THEN "value" ELSE "null",
     top_f |-> IF v.recup_top_ok THEN "value" ELSE "null",
     delta_f |-> IF v.recup_bottom_ok /\ v.recup_top_ok
                 THEN "value" ELSE "null"]

\* mutant of Transmitted: the record is sent although the link is down
TransmittedLinkDown(o) == o \in {"sent", "linkdown"}

\* send_data 613-654: sendto is reached, and returns, when there is a socket,
\* the link is up and nothing raised
Transmitted(o) == o = "sent"

\* monitor 750-758: telemetry send
MonSend ==
    /\ pc = "m_send"
    /\ \E o \in SendOutcomes(fm) :
          /\ res' = [res EXCEPT !.send = o]
          /\ sent' = IF Transmitted(o)
                     THEN Append(sent, TelemetryRecord(vals)) ELSE sent
          /\ fm' = IF o = "linkdown"
                   THEN [fm EXCEPT !.wifi_connected = FALSE] ELSE fm
          /\ loop_success' = (loop_success /\ ~SendRaises(o))
    /\ pc' = "m_track"
    /\ UNCHANGED <<rtc_mem, bootVars, restart_count, initVars,
                   consecutive_errors, prev_errors, fmGhost>>
    /\ UNCHANGED <<fed, sleep_remaining, chunks, vals>>
    /\ UNCHANGED <<streak, adsVars, tcVars, senseVars, wdtVars>>

\* monitor 765: if consecutive_errors >= 10
RecoveryDue(n) == n >= RECOVERY_THRESHOLD

\* monitor 760-769: reset or count the failed cycle; at the threshold call
\* self.init(max_retries=1)
MonTrack ==
    /\ pc = "m_track"
    /\ loop_success \/ consecutive_errors < RECOVERY_THRESHOLD + MaxOverrun
    /\ consecutive_errors' = IF loop_success THEN 0 ELSE consecutive_errors + 1
    /\ IF ~loop_success /\ RecoveryDue(consecutive_errors + 1)
       THEN /\ init_caller' = "recovery"
            /\ max_retries' = RECOVERY_MAX_RETRIES
            /\ pc' = "init_wifi"
       ELSE /\ pc' = "m_display"
            /\ UNCHANGED <<init_caller, max_retries>>
    /\ attempt' = 0
    /\ sleeps' = <<>>
    /\ UNCHANGED <<rtc_mem, bootVars, restart_count, fm, loop_success, res,
                   prev_errors, fmGhost>>
    /\ UNCHANGED cycleVars
    /\ UNCHANGED <<streak, adsVars, tcVars, senseVars, wdtVars>>

\* monitor 775-802: the status line; nothing here is inside a try, an error
\* leaves monitor() and reaches run_monitor's except Exception.  After the
\* status line the iteration's values are not read again (the next iteration
\* sets them anew at 701-716): the model forgets them here
MonDisplay ==
    /\ pc = "m_display"
    /\ \/ /\ pc' = "m_sleep"
          /\ sleep_remaining' = INTERVAL_MS
          /\ loop_success' = TRUE
          /\ res' = NoResults
          /\ prev_errors' = 0
          /\ vals' = DefaultVals
          /\ sent' = <<>>
          /\ UNCHANGED <<consecutive_errors, fed, chunks>>
       \/ /\ pc' = "rm_crash"
          /\ LeaveMonitor
    /\ UNCHANGED <<rtc_mem, bootVars, restart_count, fm, initVars, fmGhost>>
    /\ UNCHANGED <<streak, adsVars, tcVars, senseVars, wdtVars>>

\* mutant of SleepChunk: the whole interval is slept in one piece
SleepChunkWhole(remaining) == remaining

\* monitor 804: sleep_chunk = min(sleep_remaining, 0.5)
SleepChunk(remaining) ==
    IF remaining < SLEEP_CHUNK_MS THEN remaining ELSE SLEEP_CHUNK_MS

\* monitor 801-811: one turn of the sleep loop: sleep a chunk, feed the
\* watchdog (an error of the feed is swallowed); the loop ends, and the next
\* iteration starts, when nothing remains
MonSleep ==
    /\ pc = "m_sleep"
    /\ sleep_remaining > 0
    /\ chunks' = Append(chunks, SleepChunk(sleep_remaining))
    /\ sleep_remaining' = sleep_remaining - SleepChunk(sleep_remaining)
    /\ \E f \in FeedOutcomes : fed' = Append(fed, f)
    /\ pc' = IF sleep_remaining - SleepChunk(sleep_remaining) > 0
             THEN "m_sleep" ELSE "m_iter"
    /\ UNCHANGED <<rtc_mem, bootVars, restart_count, fm, initVars, iterVars,
                   fmGhost, vals, sent>>
    /\ UNCHANGED <<streak, adsVars, tcVars, senseVars, wdtVars>>

(***************************************************************************)
(* The operator-stop signal (KeyboardInterrupt) can arrive at any step.    *)
(***************************************************************************)
\* monitor 813-817: raised anywhere inside monitor's try (the recovery init
\* included: except Exception does not catch it), it is caught by monitor's
\* own handler and monitor() returns normally
StopInMonitor ==
    /\ \/ pc \in MonitorPcs
       \/ pc \in InitPcs /\ init_caller = "recovery"
    /\ pc' = "rm_normal"
    /\ init_caller' = "none"
    /\ max_retries' = DEFAULT_MAX_RETRIES
    /\ attempt' = 0
    /\ sleeps' = <<>>
    /\ LeaveMonitor
    /\ stop_seen' = TRUE
    /\ UNCHANGED <<rtc_mem, bootVars, restart_count, fm, monitored,
                   cleanup_ran>>
    /\ UNCHANGED <<streak, adsVars, tcVars, senseVars, wdtVars>>

\* main.py 78-80: raised in run_monitor's try outside monitor(): break.
\* main.py 82-103: raised inside the except handler it leaves run_monitor too
StopInSupervisor ==
    /\ \/ pc \in {"rm_top", "rm_reset", "rm_normal"}
       \/ pc \in InitPcs /\ init_caller = "run_monitor"
       \/ pc \in {"rm_crash", "rm_cleanup", "rm_delay"}
    /\ pc' = "stopped"
    /\ init_caller' = "none"
    /\ attempt' = 0
    /\ sleeps' = <<>>
    /\ stop_seen' = TRUE
    /\ UNCHANGED <<rtc_mem, bootVars, restart_count, fm, max_retries,
                   iterVars, monitored, cleanup_ran>>
    /\ UNCHANGED cycleVars
    /\ UNCHANGED <<streak, adsVars, tcVars, senseVars, wdtVars>>

(***************************************************************************)
(* ads1115.py: the ADS1115 driver, one call at a time (SpecAds)            *)
(***************************************************************************)
\* a | b on non-negative integers
RECURSIVE BitOr(_, _)
BitOr(a, b) ==
    IF a = 0 THEN b
    ELSE IF b = 0 THEN a
    ELSE (IF a % 2 = 1 \/ b % 2 = 1 THEN 1 ELSE 0)
         + 2 * BitOr(a \div 2, b \div 2)

\* a & b on non-negative integers
RECURSIVE BitAnd(_, _)
BitAnd(a, b) ==
    IF a = 0 \/ b = 0 THEN 0
    ELSE (IF a % 2 = 1 /\ b % 2 = 1 THEN 1 ELSE 0)
         + 2 * BitAnd(a \div 2, b \div 2)

\* _write_config 182-183: the two bytes that go on the bus
ConfigWord(config) == ((config \div 256) % 256) * 256 + (config % 256)

\* bits 14:12 of a config word: the input multiplexer field
MuxField(word) == (word \div 4096) % 8

\* _FSR_MAP, in millivolts
FsrMilli(gain) ==
    CASE gain = 0 -> 6144
      [] gain = PGA_4096 -> 4096
      [] gain = PGA_2048 -> 2048
      [] gain = 1536 -> 1024
      [] gain = 2048 -> 512
      [] gain = 2560 -> 256

\* 203-206 and 350-352: the 16-bit word as a signed value
Signed(word) == IF word >= 32768 THEN word - 65536 ELSE word

\* value * scale with scale = fsr / 32768.0: kept exact, in units of
\* 1/32768 mV
Scaled(value, gain) == value * FsrMilli(gain)

\* 229 and 321: mux = _MUX_SINGLE_0 + (channel << 12)
SingleMux(channel) == MUX_SINGLE_0 + channel * 4096

\* mutant of DiffMux: only pos is tested for the first pair
DiffMuxLoose(pos, neg) ==
    IF pos = 0 /\ neg # 3 THEN MUX_DIFF_01
    ELSE IF pos = 0 /\ neg = 3 THEN MUX_DIFF_03
    ELSE IF pos = 1 /\ neg = 3 THEN MUX_DIFF_13
    ELSE IF pos = 2 /\ neg = 3 THEN MUX_DIFF_23
    ELSE -1

\* read_differential_raw 263-272: the pair's mux setting; -1: ValueError
DiffMux(pos, neg) ==
    IF pos = 0 /\ neg = 1 THEN MUX_DIFF_01
    ELSE IF pos = 0 /\ neg = 3 THEN MUX_DIFF_03
    ELSE IF pos = 1 /\ neg = 3 THEN MUX_DIFF_13
    ELSE IF pos = 2 /\ neg = 3 THEN MUX_DIFF_23
    ELSE -1

\* 230-231 and 274-275: _OS_START | mux | gain | _MODE_SINGLE | rate | comp
SingleShotConfig(mux, gain, rate) ==
    BitOr(BitOr(BitOr(OS_START, mux), BitOr(gain, MODE_SINGLE)),
          BitOr(rate, COMP_DISABLE))

\* 322-323 and 369-370: mux | gain | mode | rate | _COMP_DISABLE
CaptureConfig(mux, gain, mode, rate) ==
    BitOr(BitOr(mux, gain), BitOr(BitOr(mode, rate), COMP_DISABLE))

\* an `except handler` clause catches an exception of class `raised`:
\* OSError, RuntimeError and ValueError are siblings under Exception
ExceptCatches(handler, raised) == handler = raised \/ handler = "Exception"

\* _write_config 184-187: an OSError of the bus leaves as RuntimeError
WriteConfigRaises == "RuntimeError"

\* arguments the calls are made with
Channels == -1 .. 5
Inputs == 0 .. 3
\* raw conversion words the device returns to a single-shot read:
\* 1, 0x7FFF, 0x8000 (-32768) and 0xFFFF (-1)
RawWords == {1, 32767, 32768, 65535}
\* during a capture the i-th read (from 0) finds 1 or 0xFFFF; in the long
\* capture the two alternate from read to read
CaptureWords(samples, i) ==
    IF samples < MaxSamples THEN {1, 65535}
    ELSE IF i % 2 = 0 THEN {1} ELSE {65535}
\* how long one config-register read takes on the bus, in ms
PollMs == {0, 1}
\* the two converters as furnace_monitor.py 260 and 285 set them up
DriverSetups == {<<PGA_4096, DR_860>>, <<PGA_2048, DR_128>>}
\* capture(samples, channel) calls made: a long capture and short ones, the
\* latter also with channels outside 0..3
CaptureCalls ==
    {<<MaxSamples, 0>>, <<2, 3>>, <<1, 4>>, <<1, -1>>, <<0, 1>>}

\* a new call starts: the per-call log is empty
BeginCall(call) ==
    /\ a_call' = call
    /\ a_polled' = CallStart.polled
    /\ a_readlog' = CallStart.readlog
    /\ a_elapsed' = CallStart.elapsed
    /\ a_ready_at' = CallStart.ready_at
    /\ a_consec' = CallStart.consec
    /\ a_last_good' = CallStart.last_good
    /\ a_restore' = CallStart.restore
    /\ a_value' = CallStart.value

\* init 141-170 (as far as the settings go): gain and rate are stored
\* before the device is probed
AdsInit ==
    /\ a_pc = "idle"
    /\ \E s \in DriverSetups :
          /\ a_gain' = s[1]
          /\ a_rate' = s[2]
    /\ \E found \in BOOLEAN :
          a_outcome' = IF found THEN "initialized" ELSE "not_found"
    /\ BeginCall([NoCall EXCEPT !.op = "init"])
    /\ a_writes' = <<>>
    /\ a_results' = <<>>
    /\ a_pc' = "done"
    /\ UNCHANGED <<mainVars, tcVars, senseVars, wdtVars>>

\* the start of a single-shot read with this mux: the config write 233 / 277
SingleShotStart(mux) ==
    /\ a_writes' = <<ConfigWord(SingleShotConfig(mux, a_gain, a_rate))>>
    /\ a_results' = <<>>
    /\ \E wrote \in BOOLEAN :
          IF wrote THEN a_pc' = "ss_poll" /\ a_outcome' = "running"
          ELSE a_pc' = "done" /\ a_outcome' = "write_failed"
    /\ UNCHANGED <<a_gain, a_rate>>

\* read_raw 229-233
AdsReadRaw ==
    /\ a_pc = "idle"
    /\ \E ch \in Channels :
          /\ BeginCall([NoCall EXCEPT !.op = "read_raw", !.channel = ch])
          /\ SingleShotStart(SingleMux(ch))
    /\ UNCHANGED <<mainVars, tcVars, senseVars, wdtVars>>

\* read_differential_raw 263-277
AdsReadDifferentialRaw ==
    /\ a_pc = "idle"
    /\ \E p \in Inputs, n \in Inputs :
          /\ BeginCall([NoCall EXCEPT !.op = "read_differential_raw",
                                      !.pos = p, !.neg = n])
          /\ IF DiffMux(p, n) = -1
             THEN /\ a_outcome' = "ValueError"
                  /\ a_writes' = <<>>
                  /\ a_results' = <<>>
                  /\ a_pc' = "done"
                  /\ UNCHANGED <<a_gain, a_rate>>
             ELSE SingleShotStart(DiffMux(p, n))
    /\ UNCHANGED <<mainVars, tcVars, senseVars, wdtVars>>

\* mutant of WaitTimedOut: the deadline is twice as long
WaitTimedOutLate(elapsed) == elapsed > 2 * WAIT_TIMEOUT_MS

\* _wait_ready 215: if time.ticks_diff(time.ticks_ms(), start) > timeout_ms
WaitTimedOut(elapsed) == elapsed > WAIT_TIMEOUT_MS

\* _wait_ready 211-217: one turn of the poll loop: read the config register
\* (taking d ms); ready: return; else time out or sleep 1 ms
AdsWaitReady ==
    /\ a_pc = "ss_poll"
    /\ a_polled' = TRUE
    /\ \E d \in PollMs, got \in {"ready", "busy", "error"} :
          /\ a_elapsed' = IF got = "busy" /\ ~WaitTimedOut(a_elapsed + d)
                          THEN a_elapsed + d + POLL_SLEEP_MS
                          ELSE a_elapsed + d
          /\ a_ready_at' = IF got = "ready" THEN a_elapsed + d ELSE a_ready_at
          /\ a_pc' = IF got = "ready" THEN "ss_read"
                     ELSE IF got = "busy" /\ ~WaitTimedOut(a_elapsed + d)
                          THEN "ss_poll" ELSE "done"
          /\ a_outcome' = IF got = "error" THEN "poll_failed"
                          ELSE IF got = "busy" /\ WaitTimedOut(a_elapsed + d)
                               THEN "timeout" ELSE a_outcome
    /\ UNCHANGED <<a_call, a_gain, a_rate, a_writes, a_readlog, a_results,
                   a_consec, a_last_good, a_restore, a_value>>
    /\ UNCHANGED <<mainVars, tcVars, senseVars, wdtVars>>

\* _read_conversion 197-206, returned by read_raw 235 / 279
AdsReadConversion ==
    /\ a_pc = "ss_read"
    /\ \E w \in RawWords \cup {BusError} :
          /\ a_readlog' = Append(a_readlog, w)
          /\ a_outcome' = IF w = BusError THEN "read_failed" ELSE "value"
          /\ a_value' = IF w = BusError THEN <<>> ELSE <<Signed(w)>>
    /\ a_pc' = "done"
    /\ UNCHANGED <<a_call, a_gain, a_rate, a_writes, a_polled, a_elapsed,
                   a_ready_at, a_results, a_consec, a_last_good, a_restore>>
    /\ UNCHANGED <<mainVars, tcVars, senseVars, wdtVars>>

\* capture 320-345: mux and config, the write that starts continuous mode
\* (its RuntimeError is not an OSError and leaves capture as it is),
\* results = [0.0] * samples
AdsCapture ==
    /\ a_pc = "idle"
    /\ \E c \in CaptureCalls :
          /\ BeginCall([NoCall EXCEPT !.op = "capture", !.samples = c[1],
                                      !.channel = c[2]])
          /\ a_writes' = <<ConfigWord(CaptureConfig(SingleMux(c[2]), a_gain,
                                                    MODE_CONTINUOUS, a_rate))>>
          /\ \E wrote \in BOOLEAN :
                IF wrote
                THEN /\ a_pc' = IF c[1] > 0 THEN "cap_loop" ELSE "cap_restore"
                     /\ a_outcome' = "running"
                     /\ a_results' = [k \in 1 .. c[1] |-> 0]
                ELSE /\ a_pc' = "done"
                     /\ a_outcome' = "write_failed"
                     /\ a_results' = <<>>
    /\ UNCHANGED <<a_gain, a_rate>>
    /\ UNCHANGED <<mainVars, tcVars, senseVars, wdtVars>>

\* mutant of CaptureAbort: the threshold is off by one (> instead of >=)
CaptureAbortOffByOne(errors) == errors > CAPTURE_MAX_ERRORS

\* capture 362: if consecutive_errors >= 10
CaptureAbort(errors) == errors >= CAPTURE_MAX_ERRORS

\* mutant of Substitute: a failed read leaves the slot at its initial 0.0
SubstituteZero(last_good) == 0

\* capture 359: results[i] = last_good_value
Substitute(last_good) == last_good

\* capture 347-366: one turn of the sample loop, i = number of reads so far
AdsCaptureRead ==
    /\ a_pc = "cap_loop"
    /\ \E w \in CaptureWords(a_call.samples, Len(a_readlog)) \cup {BusError} :
          /\ a_readlog' = Append(a_readlog, w)
          /\ IF w # BusError
             THEN /\ a_results' = [a_results EXCEPT ![Len(a_readlog) + 1] =
                                        Scaled(Signed(w), a_gain)]
                  /\ a_last_good' = Scaled(Signed(w), a_gain)
                  /\ a_consec' = 0
                  /\ a_outcome' = a_outcome
                  /\ a_pc' = IF Len(a_readlog) + 1 < a_call.samples
                             THEN "cap_loop" ELSE "cap_restore"
             ELSE /\ a_results' = [a_results EXCEPT ![Len(a_readlog) + 1] =
                                        Substitute(a_last_good)]
                  /\ a_last_good' = a_last_good
                  /\ a_consec' = a_consec + 1
                  /\ IF CaptureAbort(a_consec + 1)
                     THEN a_pc' = "done" /\ a_outcome' = "driver_fault"
                     ELSE /\ a_outcome' = a_outcome
                          /\ a_pc' = IF Len(a_readlog) + 1 < a_call.samples
                                     THEN "cap_loop" ELSE "cap_restore"
    /\ UNCHANGED <<a_call, a_gain, a_rate, a_writes, a_polled, a_elapsed,
                   a_ready_at, a_restore, a_value>>
    /\ UNCHANGED <<mainVars, tcVars, senseVars, wdtVars>>

\* capture 368-377: back to single-shot mode; the handler is
\* `except OSError`, the error _write_config raises is a RuntimeError
AdsCaptureRestore ==
    /\ a_pc = "cap_restore"
    /\ a_writes' = Append(a_writes,
                          ConfigWord(CaptureConfig(SingleMux(a_call.channel),
                                                   a_gain, MODE_SINGLE,
                                                   a_rate)))
    /\ \E wrote \in BOOLEAN :
          /\ a_restore' = IF wrote THEN "ok" ELSE "failed"
          /\ IF wrote \/ ExceptCatches("OSError", WriteConfigRaises)
             THEN a_outcome' = "samples" /\ a_value' = a_results
             ELSE a_outcome' = "write_failed" /\ a_value' = <<>>
    /\ a_pc' = "done"
    /\ UNCHANGED <<a_call, a_gain, a_rate, a_polled, a_readlog, a_elapsed,
                   a_ready_at, a_results, a_consec, a_last_good>>
    /\ UNCHANGED <<mainVars, tcVars, senseVars, wdtVars>>

\* the call is over: its result goes to the caller (read_voltage 247-249,
\* read_differential 292-294, read_flame_spectrum); the driver keeps only
\* its gain and rate
AdsReturn ==
    /\ a_pc = "done"
    /\ a_pc' = "idle"
    /\ BeginCall(NoCall)
    /\ a_writes' = CallStart.writes
    /\ a_results' = CallStart.results
    /\ a_outcome' = "none"
    /\ UNCHANGED <<a_gain, a_rate>>
    /\ UNCHANGED <<mainVars, tcVars, senseVars, wdtVars>>

NextAds ==
    \/ AdsReturn
    \/ AdsInit
    \/ AdsReadRaw
    \/ AdsReadDifferentialRaw
    \/ AdsWaitReady
    \/ AdsReadConversion
    \/ AdsCapture
    \/ AdsCaptureRead
    \/ AdsCaptureRestore

SpecAds == Init /\ [][NextAds]_vars

(***************************************************************************)
(* max6675.py: MAX6675.__init__, read_raw, read, read_safe                 *)
(***************************************************************************)
\* how far the clock is let run
MaxTicks == 800
\* read_raw 66-67: if elapsed < 250: sleep_ms(250 - elapsed)
MIN_READ_INTERVAL_MS == 250
\* __init__ 52: time.sleep_ms(250)
INIT_WAIT_MS == 250
\* read_raw 61: "MAX6675 requires 220ms between conversions"
CONVERSION_MS == 220
\* read 94, 98, 102: raw & 0x8000, raw & 0x04, raw & 0x02
DUMMY_BIT == 32768
OPEN_BIT == 4
ID_BIT == 2
\* read 106: raw >> 3
TEMP_SHIFT == 3

\* the time that passes between two calls, in ms
TickMs == {100, 250}

\* 16-bit frames the device returns: 0, 100 and 1023.75 degrees, 100
\* degrees with the undefined bit 0 set, and frames with the identity bit,
\* the open-circuit bit, the dummy bit or every bit set
Frames == {0, 3200, 32760, 3201, 2, 3204, 32768, 65535}

\* time.ticks_diff(a, b) within half a period of the tick counter
TicksDiff(a, b) == a - b

\* read_raw 64-67: the sleep before the bus read
ReadWait(now, last_read) ==
    IF TicksDiff(now, last_read) < MIN_READ_INTERVAL_MS
    THEN MIN_READ_INTERVAL_MS - TicksDiff(now, last_read) ELSE 0

\* read_raw 69-78: _last_read is set after a bus read that did not raise
StampAfter(frame, last_read, at) ==
    IF frame = BusError THEN last_read ELSE at

\* one bus read of probe pr at time `at`
BusRead(pr, frame, at) ==
    [made |-> TRUE,
     last_read |-> StampAfter(frame, pr.last_read, at),
     bus_at |-> at,
     gap |-> IF pr.bus_at = -1 THEN -1 ELSE at - pr.bus_at]

\* mutant of ReadRaises: the device-identity bit is not looked at
ReadRaisesIgnoresId(raw) ==
    \/ raw = BusError
    \/ BitAnd(raw, DUMMY_BIT) # 0
    \/ BitAnd(raw, OPEN_BIT) # 0

\* read 91-103: read_raw raised, or one of the three validity checks did
ReadRaises(raw) ==
    \/ raw = BusError
    \/ BitAnd(raw, DUMMY_BIT) # 0
    \/ BitAnd(raw, OPEN_BIT) # 0
    \/ BitAnd(raw, ID_BIT) # 0

\* read 106: temp_c = (raw >> 3) * 0.25, in hundredths of a degree C
TempC(raw) == (raw \div (2 ^ TEMP_SHIFT)) * 25

\* read_safe 133: temp_f = temp_c * 9.0 / 5.0 + 32.0, in hundredths
TempF(temp_c) == (temp_c * 9) \div 5 + 3200

\* read_safe 131-136
ReadSafe(raw) ==
    IF ReadRaises(raw) /\ ExceptCatches("Exception", "RuntimeError")
    THEN [temp_c |-> 0, temp_f |-> 0, connected |-> FALSE]
    ELSE [temp_c |-> TempC(raw), temp_f |-> TempF(TempC(raw)),
          connected |-> TRUE]

\* time passes between two calls
TcTick ==
    /\ \E d \in TickMs :
          /\ t_now + d <= MaxTicks
          /\ t_now' = t_now + d
    /\ UNCHANGED <<t_probe, t_call>>
    /\ UNCHANGED <<mainVars, adsVars, senseVars, wdtVars>>

\* MAX6675.__init__ 45-55: wait for the first conversion, then one test
\* read; if it raises there is no instance
TcNew(p) ==
    /\ ~t_probe[p].made
    /\ LET start == t_now + INIT_WAIT_MS
           wait == ReadWait(start, NewProbe.last_read)
           at == start + wait
       IN /\ at <= MaxTicks
          /\ t_now' = at
          /\ \E frame \in Frames \cup {BusError} :
                /\ t_probe' =
                      [t_probe EXCEPT ![p] =
                          IF frame = BusError THEN NewProbe
                          ELSE BusRead(NewProbe, frame, at)]
                /\ t_call' =
                      [NoTcCall EXCEPT !.op = "new", !.probe = p,
                                       !.since = NewProbe.last_read,
                                       !.start = start, !.wait = wait,
                                       !.frame = frame,
                                       !.raised = (frame = BusError)]
    /\ UNCHANGED <<mainVars, adsVars, senseVars, wdtVars>>

\* MAX6675.read_safe 121-136 with read 81-107 and read_raw 57-79
TcReadSafe(p) ==
    /\ t_probe[p].made
    /\ LET wait == ReadWait(t_now, t_probe[p].last_read)
           at == t_now + wait
       IN /\ at <= MaxTicks
          /\ t_now' = at
          /\ \E frame \in Frames \cup {BusError} :
                /\ t_probe' =
                      [t_probe EXCEPT ![p] = BusRead(t_probe[p], frame, at)]
                /\ t_call' =
                      [op |-> "read_safe", probe |-> p,
                       since |-> t_probe[p].last_read,
                       start |-> t_now, wait |-> wait, frame |-> frame,
                       raised |-> (/\ ReadRaises(frame)
                                   /\ ~ExceptCatches("Exception",
                                                     "RuntimeError")),
                       result |-> ReadSafe(frame)]
    /\ UNCHANGED <<mainVars, adsVars, senseVars, wdtVars>>

NextTc ==
    \/ TcTick
    \/ \E p \in Probes : TcNew(p)
    \/ \E p \in Probes : TcReadSafe(p)

SpecTc == Init /\ [][NextTc]_vars

(***************************************************************************)
(* furnace_monitor.py: analyze_flame                                       *)
(* Frequencies are in half hertz and magnitudes in units of 0.0005.        *)
(***************************************************************************)
\* the longest spectrum analysed (the firmware's has 256 bins)
MaxBins == 2
\* FLICKER_FREQ_MIN = 1, FLICKER_FREQ_MAX = 20, in Hz
FLICKER_FREQ_MIN == 1
FLICKER_FREQ_MAX == 20
\* THERMOACOUSTIC_FREQ_MIN = 30, THERMOACOUSTIC_FREQ_MAX = 400, in Hz
THERMOACOUSTIC_FREQ_MIN == 30
THERMOACOUSTIC_FREQ_MAX == 400
\* MIN_SIGNAL_RMS = 0.001, in units of 0.0005
MIN_SIGNAL_RMS == 2
\* analyze_flame 489: if 8 <= flicker_freq <= 12, in Hz
NORMAL_FREQ_MIN == 8
NORMAL_FREQ_MAX == 12
\* analyze_flame 491: elif flicker_freq < 5, in Hz
UNSTABLE_FREQ_BELOW == 5

\* n Hz in the unit of the model's frequencies
Hz(n) == 2 * n

\* bin frequencies: 0, 1, 4.5, 5, 8, 12, 12.5, 20, 20.5, 30, 400, 400.5 Hz
FlameFreqs == {0, 2, 9, 10, 16, 24, 25, 40, 41, 60, 800, 801}
\* bin magnitudes: 0, 0.0005, 0.001, 0.3, 0.6, 1.0
FlameMags == {0, 1, 2, 600, 1200, 2000}
\* zip(frequencies, magnitudes): the spectra analysed; read_flame_spectrum
\* 438-441 builds the frequencies as i * freq_resolution, so they ascend
Spectra ==
    {s \in UNION {[1 .. n -> [f : FlameFreqs, m : FlameMags]] :
                      n \in 0 .. MaxBins} :
        \A i \in 1 .. Len(s) - 1 : s[i].f < s[i + 1].f}

\* mutant of Exceeds: a bin of equal magnitude replaces the peak
ExceedsOrEquals(m, peak_mag) == m >= peak_mag

\* analyze_flame 465, 472: if m > results[...peak_mag]
Exceeds(m, peak_mag) == m > peak_mag

\* analyze_flame 463-474: the first bin of greatest magnitude among those
\* with lo <= f <= hi, starting from frequency 0, magnitude 0
RECURSIVE BandPeak(_, _, _, _, _)
BandPeak(spectrum, lo, hi, i, best) ==
    IF i > Len(spectrum) THEN best
    ELSE BandPeak(spectrum, lo, hi, i + 1,
                  IF /\ Hz(lo) <= spectrum[i].f /\ spectrum[i].f <= Hz(hi)
                     /\ Exceeds(spectrum[i].m, best.mag)
                  THEN [freq |-> spectrum[i].f, mag |-> spectrum[i].m]
                  ELSE best)

\* sum(m**2 for m in magnitudes)
RECURSIVE SumSquares(_, _)
SumSquares(spectrum, i) ==
    IF i > Len(spectrum) THEN 0
    ELSE spectrum[i].m * spectrum[i].m + SumSquares(spectrum, i + 1)

\* mutant of WeakSignal: the sum of squares is not divided by the length
WeakSignalIgnoresLength(spectrum) ==
    IF Len(spectrum) = 0 THEN 0 < MIN_SIGNAL_RMS
    ELSE SumSquares(spectrum, 1) < MIN_SIGNAL_RMS * MIN_SIGNAL_RMS

\* analyze_flame 477-481: rms < MIN_SIGNAL_RMS with
\* rms = sqrt(sum / len) if magnitudes else 0.0
WeakSignal(spectrum) ==
    IF Len(spectrum) = 0 THEN 0 < MIN_SIGNAL_RMS
    ELSE SumSquares(spectrum, 1)
            < MIN_SIGNAL_RMS * MIN_SIGNAL_RMS * Len(spectrum)

\* mutant of FlameStatus: 5 Hz still counts as low flicker
FlameStatusLowUpTo5(flicker_freq) ==
    IF flicker_freq > 0
    THEN IF Hz(NORMAL_FREQ_MIN) <= flicker_freq
            /\ flicker_freq <= Hz(NORMAL_FREQ_MAX)
         THEN [status |-> "normal", warnings |-> <<>>]
         ELSE IF flicker_freq <= Hz(UNSTABLE_FREQ_BELOW)
         THEN [status |-> "unstable", warnings |-> <<"flame lift">>]
         ELSE [status |-> "check", warnings |-> <<>>]
    ELSE [status |-> "no_signal", warnings |-> <<"no flicker">>]

\* analyze_flame 487-498: status and warning from the flicker peak frequency
FlameStatus(flicker_freq) ==
    IF flicker_freq > 0
    THEN IF Hz(NORMAL_FREQ_MIN) <= flicker_freq
            /\ flicker_freq <= Hz(NORMAL_FREQ_MAX)
         THEN [status |-> "normal", warnings |-> <<>>]
         ELSE IF flicker_freq < Hz(UNSTABLE_FREQ_BELOW)
         THEN [status |-> "unstable", warnings |-> <<"flame lift">>]
         ELSE [status |-> "check", warnings |-> <<>>]
    ELSE [status |-> "no_signal", warnings |-> <<"no flicker">>]

\* mutant of ThermoWarning: half the flicker magnitude is enough
ThermoWarningAtHalf(thermo_mag, flicker_mag) ==
    IF 2 * thermo_mag >= flicker_mag THEN <<"thermoacoustic">> ELSE <<>>

\* analyze_flame 501-502: thermoacoustic_peak_mag > flicker_peak_mag * 0.5
ThermoWarning(thermo_mag, flicker_mag) ==
    IF 2 * thermo_mag > flicker_mag THEN <<"thermoacoustic">> ELSE <<>>

\* analyze_flame 452-504; rms_amplitude is kept as the sum of squares
AnalyzeFlameResult(spectrum) ==
    LET none == [freq |-> 0, mag |-> 0]
        flicker == BandPeak(spectrum, FLICKER_FREQ_MIN, FLICKER_FREQ_MAX,
                            1, none)
        thermo == BandPeak(spectrum, THERMOACOUSTIC_FREQ_MIN,
                           THERMOACOUSTIC_FREQ_MAX, 1, none)
        peaks == [op |-> "analyze_flame",
                  flicker_peak_freq |-> flicker.freq,
                  flicker_peak_mag |-> flicker.mag,
                  thermoacoustic_peak_freq |-> thermo.freq,
                  thermoacoustic_peak_mag |-> thermo.mag,
                  sum_squares |-> SumSquares(spectrum, 1),
                  status |-> "unknown", warnings |-> <<>>]
    IN IF WeakSignal(spectrum)
       THEN [peaks EXCEPT !.status = "no_signal", !.warnings = <<"weak">>]
       ELSE [peaks EXCEPT
                !.status = FlameStatus(flicker.freq).status,
                !.warnings = FlameStatus(flicker.freq).warnings
                                \o ThermoWarning(thermo.mag, flicker.mag)]

\* FurnaceMonitor.analyze_flame(frequencies, magnitudes)
AnalyzeFlame ==
    /\ s_op = "none"
    /\ \E spectrum \in Spectra :
          /\ s_in' = spectrum
          /\ s_out' = AnalyzeFlameResult(spectrum)
    /\ s_op' = "analyze_flame"
    /\ s_prev' = NoSenseCall
    /\ UNCHANGED <<mainVars, adsVars, tcVars, wdtVars>>

(***************************************************************************)
(* furnace_monitor.py: read_control_signal                                 *)
(* Voltages are in mV, currents in 0.01 mA, percents in 1/16 %.            *)
(***************************************************************************)
\* read_control_signal 520: voltage < -0.1 or voltage > 2.5, in mV
CTRL_V_LOW == -100
CTRL_V_HIGH == 2500
\* SENSE_RESISTANCE = 100.0, MA_MIN = 4.0, MA_MAX = 20.0
SENSE_RESISTANCE == 100
MA_MIN == 4
MA_MAX == 20

\* what read_differential(pos=0, neg=1) returns, in mV
ControlVolts ==
    {-200, -101, -100, 0, 400, 1200, 2000, 2100, 2500, 2501, 3000}

\* mutant of ControlOutOfRange: no lower limit
ControlOutOfRangeHighOnly(mv) == mv > CTRL_V_HIGH

\* read_control_signal 520
ControlOutOfRange(mv) == mv < CTRL_V_LOW \/ mv > CTRL_V_HIGH

\* read_control_signal 523: ma = (voltage / SENSE_RESISTANCE) * 1000.0
Milliamps(mv) == (mv * 1000 * 100) \div (SENSE_RESISTANCE * 1000)

\* read_control_signal 525-530
Percent(ma) ==
    IF ma < MA_MIN * 100 THEN 0
    ELSE IF ma > MA_MAX * 100 THEN 100 * 16
    ELSE ((ma - MA_MIN * 100) * 100 * 16) \div ((MA_MAX - MA_MIN) * 100)

\* read_control_signal 516-532
ControlResult(driver_ok, mv) ==
    IF ~driver_ok
    THEN [op |-> "read_control_signal", raised |-> "RuntimeError",
          voltage |-> 0, percent |-> 0, ma |-> 0]
    ELSE IF ControlOutOfRange(mv)
    THEN [op |-> "read_control_signal", raised |-> "ValueError",
          voltage |-> 0, percent |-> 0, ma |-> 0]
    ELSE [op |-> "read_control_signal", raised |-> "none",
          voltage |-> mv, percent |-> Percent(Milliamps(mv)),
          ma |-> Milliamps(mv)]

\* FurnaceMonitor.read_control_signal(); the converter read returns a
\* voltage or raises; the call may follow another one directly
ReadControlSignal ==
    /\ s_op \in {"none", "read_control_signal"}
    /\ \E driver_ok \in BOOLEAN, mv \in ControlVolts :
          /\ ~driver_ok => mv = 0
          /\ s_in' = [driver_ok |-> driver_ok, mv |-> mv]
          /\ s_out' = ControlResult(driver_ok, mv)
    /\ s_op' = "read_control_signal"
    /\ s_prev' = IF s_op = "read_control_signal"
                 THEN [op |-> s_op, in |-> s_in, out |-> s_out]
                 ELSE NoSenseCall
    /\ UNCHANGED <<mainVars, adsVars, tcVars, wdtVars>>

(***************************************************************************)
(* furnace_monitor.py: read_pressure_sensors                               *)
(* Voltages are in mV, pressures in 1/4000 PSI.                            *)
(***************************************************************************)
\* FAULT_V_LOW = 0.4, FAULT_V_HIGH = 4.6, in mV
FAULT_V_LOW == 400
FAULT_V_HIGH == 4600
\* PRESSURE_V_MIN = 0.5, PRESSURE_V_MAX = 4.5, in mV; PRESSURE_PSI_MAX = 5.0
PRESSURE_V_MIN == 500
PRESSURE_V_MAX == 4500
PRESSURE_PSI_MAX == 5
\* the model's pressure unit: 4000 to the PSI
PSI == 4000

\* what read_voltage returns for a pressure channel, in mV
PressureVolts ==
    {0, 399, 400, 450, 500, 2500, 4500, 4550, 4600, 4601, 5000}

\* mutant of SensorFault: no upper limit
SensorFaultLowOnly(mv) == mv < FAULT_V_LOW

\* read_pressure_sensors 552, 561
SensorFault(mv) == mv < FAULT_V_LOW \/ mv > FAULT_V_HIGH

\* read_pressure_sensors 556-557, 565-566: linear map, then
\* max(0.0, min(PRESSURE_PSI_MAX, psi))
PressurePsi(mv) ==
    LET psi == ((mv - PRESSURE_V_MIN) * PRESSURE_PSI_MAX * PSI)
                  \div (PRESSURE_V_MAX - PRESSURE_V_MIN)
        capped == IF psi > PRESSURE_PSI_MAX * PSI
                  THEN PRESSURE_PSI_MAX * PSI ELSE psi
    IN IF capped < 0 THEN 0 ELSE capped

\* one channel of read_pressure_sensors: None, or the pressure
ChannelResult(mv) ==
    IF SensorFault(mv) THEN [absent |-> TRUE, psi |-> 0]
    ELSE [absent |-> FALSE, psi |-> PressurePsi(mv)]

\* FurnaceMonitor.read_pressure_sensors(); either read_voltage call may
\* raise, and then the function does
ReadPressureSensors ==
    /\ s_op = "none"
    /\ \E v1 \in PressureVolts, v2 \in PressureVolts,
          fails \in {"none", "first", "second"} :
          /\ fails = "first" => v1 = 0 /\ v2 = 0
          /\ fails = "second" => v2 = 0
          /\ s_in' = [v1 |-> v1, v2 |-> v2, fails |-> fails]
          /\ s_out' =
                IF fails # "none"
                THEN [op |-> "read_pressure_sensors",
                      raised |-> "RuntimeError"]
                ELSE [op |-> "read_pressure_sensors", raised |-> "none",
                      psi1 |-> ChannelResult(v1),
                      psi2 |-> ChannelResult(v2)]
    /\ s_op' = "read_pressure_sensors"
    /\ s_prev' = NoSenseCall
    /\ UNCHANGED <<mainVars, adsVars, tcVars, wdtVars>>

(***************************************************************************)
(* furnace_monitor.py: _fft (the length check)                             *)
(***************************************************************************)
\* the longest list handed to _fft (read_flame_spectrum hands 512)
MaxFftLen == 17

\* n & (n - 1) as Python computes it: for n = 0 the right operand is -1,
\* all ones in two's complement, and 0 & -1 is 0
LengthMask(n) == IF n = 0 THEN 0 ELSE BitAnd(n, n - 1)

\* _fft 823: if n & (n - 1) != 0: raise ValueError
FftRejects(n) == LengthMask(n) # 0

\* _fft 819-869 as far as the length goes: the error of 824, or lists real
\* and imag of n elements
Fft ==
    /\ s_op = "none"
    /\ \E n \in 0 .. MaxFftLen :
          /\ s_in' = [n |-> n]
          /\ s_out' = IF FftRejects(n)
                       THEN [op |-> "_fft", raised |-> "ValueError", len |-> 0]
                       ELSE [op |-> "_fft", raised |-> "none", len |-> n]
    /\ s_op' = "_fft"
    /\ s_prev' = NoSenseCall
    /\ UNCHANGED <<mainVars, adsVars, tcVars, wdtVars>>

\* monitor 720, 728, 744: the caller has taken the result (or caught the
\* error); the functions keep no state
SenseReturn ==
    /\ s_op # "none"
    /\ s_op' = "none"
    /\ s_in' = <<>>
    /\ s_out' = NoSenseCall
    /\ s_prev' = NoSenseCall
    /\ UNCHANGED <<mainVars, adsVars, tcVars, wdtVars>>

NextSense ==
    \/ AnalyzeFlame
    \/ ReadControlSignal
    \/ ReadPressureSensors
    \/ Fft
    \/ SenseReturn

SpecSense == Init /\ [][NextSense]_vars

(***************************************************************************)
(* main.py and furnace_monitor.py: the time between watchdog feeds         *)
(* Each step takes the longest time its code allows: the waits fixed in    *)
(* the code, in ms; a step without a wait takes no time.  A feed always     *)
(* succeeds here.                                                          *)
(***************************************************************************)
\* main.py 26: WDT_TIMEOUT_MS = 30000
WDT_TIMEOUT_MS == 30000
\* setup_wifi 56: time.sleep(1)
NET_SETTLE_MS == 1000
\* setup_wifi 79: timeout_sec = 15
LINK_TIMEOUT_MS == 15000
\* setup_wifi 121: s.settimeout(3.0)
NET_TEST_MS == 3000
\* main.py 102: time.sleep(5)
RESTART_DELAY_MS == 5000
\* monitor 743: read_flame_spectrum(samples=512)
FLAME_SAMPLES == 512
\* SAMPLE_RATE = 860
SAMPLE_RATE == 860
\* init 313: time.sleep_ms(250)
RECUP_SETTLE_MS == 250

\* setup_wifi 41-136: the longest call by outcome: True after the link came
\* up at the end of the timeout and the connectivity test timed out, False
\* at the link timeout, an error out of wlan.active() after the settle wait
NetAttemptMs(w) ==
    CASE w = "up" -> NET_SETTLE_MS + LINK_TIMEOUT_MS + NET_TEST_MS
      [] w = "down" -> NET_SETTLE_MS + LINK_TIMEOUT_MS
      [] w = "raise" -> NET_SETTLE_MS
      [] OTHER -> 0

\* capture 347-366: samples paced at 1 / rate each
CaptureMs == (FLAME_SAMPLES * 1000) \div SAMPLE_RATE

\* the hardware timer: it resets the device when it reaches the timeout
Starved == w_unfed >= WDT_TIMEOUT_MS

\* the timer after a step that takes d ms without a feed
Elapse(d) ==
    w_unfed' = IF w_unfed + d >= WDT_TIMEOUT_MS THEN WDT_TIMEOUT_MS
               ELSE w_unfed + d

\* init 238, 265, 290, 328: if attempt < max_retries - 1
WdtLastAttempt == w_attempt >= w_retries - 1

\* init returned (or raised): main.py 57-58 and 82, monitor 769-773
WdtInitEnd(raised) ==
    /\ w_pc' = IF w_caller = "recovery" THEN "m_display"
               ELSE IF raised THEN "crash" ELSE "post_init"
    /\ w_attempt' = 0
    /\ UNCHANGED <<w_caller, w_retries, w_sleep>>

\* main.py 37: wdt = WDT(timeout=WDT_TIMEOUT_MS)
WdtArm ==
    /\ w_pc = "start"
    /\ w_pc' = "top"
    /\ w_unfed' = 0
    /\ UNCHANGED <<w_caller, w_retries, w_attempt, w_link, w_sleep>>
    /\ UNCHANGED <<mainVars, adsVars, tcVars, senseVars>>

\* main.py 43-57: a new FurnaceMonitor, fm.init()
WdtTop ==
    /\ w_pc = "top" /\ ~Starved
    /\ w_pc' = "init_wifi"
    /\ w_caller' = "run_monitor"
    /\ w_retries' = DEFAULT_MAX_RETRIES
    /\ w_attempt' = 0
    /\ w_link' = FALSE
    /\ UNCHANGED <<w_sleep, w_unfed>>
    /\ UNCHANGED <<mainVars, adsVars, tcVars, senseVars>>

\* init 229-243: one network attempt; only an error is followed by a backoff
WdtInitWifi ==
    /\ w_pc = "init_wifi" /\ ~Starved
    /\ \E w \in WifiOutcomes :
          /\ w_link' = IF w = "raise" THEN w_link ELSE w = "up"
          /\ Elapse(NetAttemptMs(w)
                    + IF w = "raise" /\ ~WdtLastAttempt
                      THEN 1000 * Backoff(w_attempt) ELSE 0)
          /\ IF w = "up" \/ WdtLastAttempt
             THEN w_pc' = "init_flame" /\ w_attempt' = 0
             ELSE w_pc' = "init_wifi" /\ w_attempt' = w_attempt + 1
    /\ UNCHANGED <<w_caller, w_retries, w_sleep>>
    /\ UNCHANGED <<mainVars, adsVars, tcVars, senseVars>>

\* init 245-293: one attempt at a converter; the last failure raises
WdtInitAdc ==
    /\ w_pc \in {"init_flame", "init_control"} /\ ~Starved
    /\ \E ok \in BOOLEAN :
          IF ok
          THEN /\ w_pc' = IF w_pc = "init_flame" THEN "init_control"
                          ELSE "init_recup"
               /\ w_attempt' = 0
               /\ UNCHANGED <<w_caller, w_retries, w_sleep, w_unfed>>
          ELSE IF ~WdtLastAttempt
          THEN /\ Elapse(1000 * Backoff(w_attempt))
               /\ w_attempt' = w_attempt + 1
               /\ UNCHANGED <<w_pc, w_caller, w_retries, w_sleep>>
          ELSE /\ WdtInitEnd(TRUE)
               /\ UNCHANGED w_unfed
    /\ UNCHANGED w_link
    /\ UNCHANGED <<mainVars, adsVars, tcVars, senseVars>>

\* init 295-332: one attempt at the thermocouples; never raises
WdtInitRecup ==
    /\ w_pc = "init_recup" /\ ~Starved
    /\ \E ok \in BOOLEAN :
          IF ok
          THEN /\ Elapse(RECUP_SETTLE_MS)
               /\ w_pc' = "init_udp" /\ w_attempt' = 0
          ELSE IF ~WdtLastAttempt
          THEN /\ Elapse(1000 * Backoff(w_attempt))
               /\ w_pc' = "init_recup" /\ w_attempt' = w_attempt + 1
          ELSE /\ w_pc' = "init_udp" /\ w_attempt' = 0
               /\ UNCHANGED w_unfed
    /\ UNCHANGED <<w_caller, w_retries, w_link, w_sleep>>
    /\ UNCHANGED <<mainVars, adsVars, tcVars, senseVars>>

\* init 334-346: the telemetry socket, only with the link up; init returns
WdtInitUdp ==
    /\ w_pc = "init_udp" /\ ~Starved
    /\ \E made \in BOOLEAN :
          IF w_link /\ ~made /\ ~WdtLastAttempt
          THEN /\ Elapse(1000 * UDP_RETRY_SLEEP)
               /\ w_attempt' = w_attempt + 1
               /\ UNCHANGED <<w_pc, w_caller, w_retries, w_sleep>>
          ELSE /\ WdtInitEnd(FALSE)
               /\ UNCHANGED w_unfed
    /\ UNCHANGED w_link
    /\ UNCHANGED <<mainVars, adsVars, tcVars, senseVars>>

\* main.py 58-70: the first feed, after init; then monitor()
WdtPostInit ==
    /\ w_pc = "post_init" /\ ~Starved
    /\ w_unfed' = 0
    /\ w_pc' = "m_iter"
    /\ UNCHANGED <<w_caller, w_retries, w_attempt, w_link, w_sleep>>
    /\ UNCHANGED <<mainVars, adsVars, tcVars, senseVars>>

\* main.py 82-102: the handler: cleanup, one feed, time.sleep(5), loop
WdtCrash ==
    /\ w_pc = "crash" /\ ~Starved
    /\ w_unfed' = RESTART_DELAY_MS
    /\ w_pc' = "top"
    /\ UNCHANGED <<w_caller, w_retries, w_attempt, w_link, w_sleep>>
    /\ UNCHANGED <<mainVars, adsVars, tcVars, senseVars>>

\* monitor 679-688: the feed at the top of an iteration
WdtIter ==
    /\ w_pc = "m_iter" /\ ~Starved
    /\ w_unfed' = 0
    /\ w_pc' = "m_wifi"
    /\ UNCHANGED <<w_caller, w_retries, w_attempt, w_link, w_sleep>>
    /\ UNCHANGED <<mainVars, adsVars, tcVars, senseVars>>

\* monitor 690-699: a reconnect attempt if the link is down and one is due
WdtReconnect ==
    /\ w_pc = "m_wifi" /\ ~Starved
    /\ \E w \in (IF w_link THEN {"skip"} ELSE WifiOutcomes \cup {"skip"}) :
          /\ w_link' = IF w \in {"up", "down"} THEN w = "up" ELSE w_link
          /\ Elapse(NetAttemptMs(w))
    /\ w_pc' = "m_reads"
    /\ UNCHANGED <<w_caller, w_retries, w_attempt, w_sleep>>
    /\ UNCHANGED <<mainVars, adsVars, tcVars, senseVars>>

\* monitor 718-758: the reads, the flame capture and the send; send_data
\* 618-620 may find the link down
WdtReads ==
    /\ w_pc = "m_reads" /\ ~Starved
    /\ \E captured \in BOOLEAN : Elapse(IF captured THEN CaptureMs ELSE 0)
    /\ \E dropped \in BOOLEAN : w_link' = (w_link /\ ~dropped)
    /\ w_pc' = "m_track"
    /\ UNCHANGED <<w_caller, w_retries, w_attempt, w_sleep>>
    /\ UNCHANGED <<mainVars, adsVars, tcVars, senseVars>>

\* monitor 760-773: at the 10th failed cycle in a row self.init(max_retries=1);
\* the count of failed cycles is left out: any cycle can be that one
WdtTrack ==
    /\ w_pc = "m_track" /\ ~Starved
    /\ \E due \in BOOLEAN :
          IF due
          THEN /\ w_pc' = "init_wifi"
               /\ w_caller' = "recovery"
               /\ w_retries' = RECOVERY_MAX_RETRIES
          ELSE /\ w_pc' = "m_display"
               /\ UNCHANGED <<w_caller, w_retries>>
    /\ w_attempt' = 0
    /\ UNCHANGED <<w_link, w_sleep, w_unfed>>
    /\ UNCHANGED <<mainVars, adsVars, tcVars, senseVars>>

\* monitor 775-802: display, sleep_remaining = interval_sec
WdtDisplay ==
    /\ w_pc = "m_display" /\ ~Starved
    /\ w_sleep' = INTERVAL_MS
    /\ w_pc' = "m_sleep"
    /\ w_caller' = "run_monitor"
    /\ w_retries' = DEFAULT_MAX_RETRIES
    /\ UNCHANGED <<w_attempt, w_link, w_unfed>>
    /\ UNCHANGED <<mainVars, adsVars, tcVars, senseVars>>

\* monitor 803-811: one chunk of the sleep, then a feed
WdtSleep ==
    /\ w_pc = "m_sleep" /\ ~Starved
    /\ LET chunk == IF w_sleep < SLEEP_CHUNK_MS THEN w_sleep
                    ELSE SLEEP_CHUNK_MS
       IN /\ w_unfed' = IF w_unfed + chunk >= WDT_TIMEOUT_MS
                        THEN WDT_TIMEOUT_MS ELSE 0
          /\ w_sleep' = w_sleep - chunk
          /\ w_pc' = IF w_sleep - chunk > 0 THEN "m_sleep" ELSE "m_iter"
    /\ UNCHANGED <<w_caller, w_retries, w_attempt, w_link>>
    /\ UNCHANGED <<mainVars, adsVars, tcVars, senseVars>>

\* the watchdog timed out: the device resets and boots into run_monitor again
WdtReset ==
    /\ Starved
    /\ w_pc' = "start"
    /\ w_caller' = "none"
    /\ w_retries' = 0
    /\ w_attempt' = 0
    /\ w_link' = FALSE
    /\ w_sleep' = 0
    /\ w_unfed' = 0
    /\ UNCHANGED <<mainVars, adsVars, tcVars, senseVars>>

NextWdt ==
    \/ WdtArm
    \/ WdtTop
    \/ WdtInitWifi
    \/ WdtInitAdc
    \/ WdtInitRecup
    \/ WdtInitUdp
    \/ WdtPostInit
    \/ WdtCrash
    \/ WdtIter
    \/ WdtReconnect
    \/ WdtReads
    \/ WdtTrack
    \/ WdtDisplay
    \/ WdtSleep
    \/ WdtReset

SpecWdt == Init /\ [][NextWdt]_vars

Next ==
    \/ BootCounter
    \/ BootBranch
    \/ FailsafeNet
    \/ FailsafeLoop
    \/ BootNet
    \/ BootRun
    \/ BootFatal
    \/ DeviceReset
    \/ RunMonitorTop
    \/ InitWifi
    \/ InitFlame
    \/ InitControl
    \/ InitRecup
    \/ InitUdp
    \/ PostInit
    \/ RunMonitorNormal
    \/ CrashRestart
    \/ Cleanup
    \/ RestartDelay
    \/ MonIter
    \/ MonReconnect
    \/ MonControl
    \/ MonPressure
    \/ MonRecup
    \/ MonFlame
    \/ MonSend
    \/ MonTrack
    \/ MonDisplay
    \/ MonSleep
    \/ StopInMonitor
    \/ StopInSupervisor

Spec == Init /\ [][Next]_vars

(***************************************************************************)
(* Properties                                                              *)
(***************************************************************************)
FailsafePcs == {"fs_net", "fs_loop"}
SupervisorPcs == {"rm_top", "rm_reset", "rm_normal", "rm_crash", "rm_cleanup",
                  "rm_delay"}
RunMonitorPcs == SupervisorPcs \cup InitPcs \cup MonitorPcs

\* C1: every boot first stores the incremented boot counter (a failed read
\* counts from 0), before any network or sensor step; a boot whose count is
\* above 3 goes to FAILSAFE and never to run_monitor, a boot whose count is 3
\* or less goes on to the normal start and never to FAILSAFE.
C1_BootRouting ==
    /\ [](pc \in {"boot", "boot_check"} =>
             /\ ~wifi_ok /\ ~webrepl_started
             /\ fm = NewFurnaceMonitor /\ ~monitored)
    /\ [](pc \in FailsafePcs => boot_count > FAILSAFE_BOOTS)
    /\ [](pc \in {"boot_net", "boot_run"} =>
             boot_count >= 1 /\ boot_count <= FAILSAFE_BOOTS)
    /\ [][/\ pc = "boot" =>
                /\ pc' = "boot_check"
                /\ boot_count' \in {ReadBootCount(rtc_mem, TRUE) + 1, 1}
                /\ rtc_mem' # <<>> /\ IntDecode(rtc_mem') = boot_count'
          /\ (pc = "boot_check" /\ pc' # "boot") =>
                pc' = IF boot_count > FAILSAFE_BOOTS THEN "fs_net"
                      ELSE "boot_net"
          /\ pc \in FailsafePcs => pc' \in FailsafePcs \cup {"boot"}
          /\ pc' \in FailsafePcs =>
                pc \in FailsafePcs \cup {"boot_check"}
          /\ pc' \in RunMonitorPcs =>
                pc \in RunMonitorPcs \cup {"boot_run"}
          /\ pc' = "boot_run" => pc = "boot_net"
          /\ pc' = "boot_net" => pc = "boot_check"]_vars

\* C1 witness: the 4th boot in a row without a counter reset sits in the
\* failsafe loop.
C1_Witness == pc = "fs_loop" /\ boot_count = FAILSAFE_BOOTS + 1

\* C2: inside run_monitor the persisted counter is written only by the step
\* that follows a successful init() and precedes the first monitoring
\* iteration, and it is written to 0; an init() that raises leaves it as is.
C2_ResetOnlyAfterInit ==
    [][/\ (pc \in RunMonitorPcs /\ rtc_mem' # rtc_mem) =>
             /\ pc = "rm_reset" /\ pc' = "m_iter"
             /\ ~monitored
             /\ rtc_mem' = ZeroBytes
       /\ pc' = "rm_reset" =>
             /\ pc \in InitPcs /\ init_caller = "run_monitor"
             /\ fm'.flame_adc /\ fm'.control_adc
       /\ (pc \in InitPcs /\ pc' = "rm_crash") => rtc_mem' = rtc_mem
       /\ (pc' = "m_iter" /\ ~monitored) => pc = "rm_reset"]_vars

\* C2 witness: init succeeded, the counter is 0 and the first iteration is
\* about to start.
C2_Witness ==
    pc = "m_iter" /\ rtc_mem = ZeroBytes /\ monitored /\ prev_errors = 0
    /\ restart_count = 0 /\ res = NoResults

\* C3: the persisted counter changes only in the boot-entry increment, the
\* failsafe entry and the post-init reset; monitoring iterations, recovery
\* re-initialization, cleanup and the restart delay leave it alone.
C3_ThreeWritePoints ==
    [][/\ rtc_mem' # rtc_mem =>
             \/ pc = "boot" /\ pc' = "boot_check"
             \/ pc = "boot_check" /\ pc' = "fs_net" /\ rtc_mem' = ZeroBytes
             \/ pc = "rm_reset" /\ pc' = "m_iter" /\ rtc_mem' = ZeroBytes
       /\ pc \in MonitorPcs \cup InitPcs
                 \cup {"rm_crash", "rm_cleanup", "rm_delay", "rm_normal"} =>
             rtc_mem' = rtc_mem]_vars

\* C3 witness: a crash restart has run cleanup and the counter still holds
\* the value stored at boot.
C3_Witness ==
    pc = "rm_delay" /\ cleanup_ran /\ rtc_mem \notin {<<>>, ZeroBytes}

\* C4: in FAILSAFE the stored counter is 0, no FurnaceMonitor handle is ever
\* opened, and the boot stays in FAILSAFE (only a device reset leaves it),
\* whatever the network and the recovery channel did.
C4_FailsafeIsolated ==
    /\ [](pc \in FailsafePcs =>
             /\ rtc_mem = ZeroBytes
             /\ fm = NewFurnaceMonitor
             /\ ~monitored /\ init_caller = "none")
    /\ [][(pc \in FailsafePcs) => (pc' \in {"fs_loop", "boot"})]_vars
    /\ [][(pc = "fs_loop") => (pc' = "boot" \/ UNCHANGED <<fm, rtc_mem>>)]_vars

\* C4 witness: the failsafe loop runs with the recovery channel started.
C4_Witness == pc = "fs_loop" /\ webrepl_started /\ rtc_mem = ZeroBytes

\* C5: an error raised by init() or escaping monitor() lands in run_monitor's
\* handler, which adds exactly one to restart_count, runs cleanup (an error
\* of cleanup is caught), waits, and starts a new init; only the operator
\* stop or a device reset leaves this path, the error never leaves
\* run_monitor.
C5_CrashRestartLoop ==
    [][/\ (pc \in InitPcs /\ init_caller = "run_monitor") =>
             pc' \in InitPcs \cup {"rm_reset", "rm_crash", "stopped", "boot"}
       /\ pc \in MonitorPcs =>
             pc' \in MonitorPcs \cup InitPcs
                     \cup {"rm_crash", "rm_normal", "boot"}
       /\ pc = "rm_crash" =>
             \/ pc' \in {"stopped", "boot"}
             \/ pc' = "rm_cleanup" /\ restart_count' = restart_count + 1
       /\ pc = "rm_cleanup" =>
             \/ pc' \in {"stopped", "boot"}
             \/ /\ pc' = "rm_delay" /\ cleanup_ran'
                /\ restart_count' = restart_count
       /\ pc = "rm_delay" =>
             \/ pc' \in {"stopped", "boot"}
             \/ /\ pc' = "rm_top" /\ cleanup_ran
                /\ restart_count' = restart_count
       /\ pc = "rm_top" =>
             \/ pc' \in {"stopped", "boot"}
             \/ /\ pc' = "init_wifi" /\ init_caller' = "run_monitor"
                /\ fm' = NewFurnaceMonitor
                /\ restart_count' = restart_count
       /\ (pc' = "stopped" /\ pc # "stopped") => stop_seen'
       /\ pc' = "boot_fatal" => pc = "boot_run"]_vars

\* C5 witness: after a crash the restart was counted and cleanup ran but
\* failed part-way (a handle is still open), and the supervisor is waiting
\* to restart.
C5_Witness ==
    /\ pc = "rm_delay" /\ cleanup_ran /\ restart_count = 1
    /\ fm # NewFurnaceMonitor /\ ~stop_seen

\* C6 (as claimed): once an operator stop has arrived (while monitor() was
\* running or at any other point of run_monitor), no initialization step and
\* no monitoring iteration runs any more.
C6_StopEndsSupervisor ==
    stop_seen => pc \notin InitPcs \cup MonitorPcs

\* C7 (as claimed): a new init after monitoring is always preceded by
\* cleanup() of the previous FurnaceMonitor.
C7_CleanupBeforeReinit ==
    (pc = "rm_top" /\ monitored) => cleanup_ran

\* the iteration had a failed critical step (control, flame, telemetry send)
CriticalStepFailed ==
    \/ res.ctrl = "fail"
    \/ res.flame = "fail"
    \/ res.send \in {"send_err", "wlan_err"}

\* C8 (as claimed): after an iteration the counter is 0 if no critical step
\* failed, else one more than before unless recovery succeeded (then 0).
C8_CounterFollowsCriticalSteps ==
    pc = "m_display" =>
        consecutive_errors =
            IF ~CriticalStepFailed \/ res.recovery = "ok" THEN 0
            ELSE prev_errors + 1

\* C9: recovery re-initialization runs exactly in the failed iterations whose
\* counter reached 10; it makes one attempt per subsystem with no backoff
\* wait; success zeroes the counter, failure is caught inside monitor() and
\* leaves the counter as it is.
C9_SingleAttemptRecovery ==
    /\ [](init_caller = "recovery" =>
             /\ pc \in InitPcs
             /\ max_retries = 1 /\ attempt = 0 /\ sleeps = <<>>
             /\ ~loop_success
             /\ consecutive_errors = prev_errors + 1
             /\ consecutive_errors >= RECOVERY_THRESHOLD
             /\ res.recovery = "none")
    /\ [](pc = "m_display" =>
             IF ~loop_success /\ prev_errors + 1 >= RECOVERY_THRESHOLD
             THEN \/ res.recovery = "ok" /\ consecutive_errors = 0
                  \/ /\ res.recovery = "failed"
                     /\ consecutive_errors = prev_errors + 1
             ELSE res.recovery = "none")
    /\ [][(pc \in InitPcs /\ init_caller = "recovery") =>
             /\ pc' \in InitPcs \cup {"m_display", "rm_normal", "boot"}
             /\ pc' \in InitPcs => (pc' # pc /\ init_caller' = "recovery")]_vars
    /\ [][(pc = "m_display" /\ res.recovery # "none") =>
             pc' \in {"m_sleep", "rm_crash", "rm_normal", "boot"}]_vars

\* C9 witness: recovery failed at 10, the next failed iteration tried again
\* at 11 and failed again; monitor() goes on.
C9_Witness ==
    /\ pc = "m_display" /\ res.recovery = "failed"
    /\ consecutive_errors = RECOVERY_THRESHOLD + 1

\* C10 (as claimed): an iteration whose socket send raised is counted as a
\* failed cycle: the counter is incremented (or zeroed by a successful
\* recovery), never reset by the success branch.
C10_SendFailureCounted ==
    (pc = "m_display" /\ res.send = "send_err") =>
        /\ ~loop_success
        /\ \/ consecutive_errors = prev_errors + 1
           \/ res.recovery = "ok"

(***************************************************************************)
(* Monitoring cycle and initialization (C11 - C14)                         *)
(***************************************************************************)
\* where a step of monitor() can go besides its successor: the operator stop
\* (monitor returns) and a device reset
LeavesMonitor == {"rm_normal", "boot"}

\* C11: every iteration attempts control read, pressure read, thermocouple
\* read, flame capture and telemetry send in this order, whatever the earlier
\* steps did; send_data gets the read values of the steps that succeeded and
\* the fallback values (defaults; null for pressure) of those that failed.
C11_AllStepsAttempted ==
    /\ [][/\ pc = "m_control" => pc' \in {"m_pressure"} \cup LeavesMonitor
          /\ pc = "m_pressure" => pc' \in {"m_recup"} \cup LeavesMonitor
          /\ pc = "m_recup" => pc' \in {"m_flame"} \cup LeavesMonitor
          /\ pc = "m_flame" => pc' \in {"m_send"} \cup LeavesMonitor
          /\ pc = "m_send" => pc' \in {"m_track"} \cup LeavesMonitor
          /\ pc' = "m_track" => pc = "m_send"]_vars
    /\ [](pc = "m_pressure" =>
             res.ctrl # "none" /\ res.press = "none" /\ res.recup = "none"
             /\ res.flame = "none" /\ res.send = "none")
    /\ [](pc = "m_recup" =>
             res.press # "none" /\ res.recup = "none" /\ res.flame = "none")
    /\ [](pc = "m_flame" => res.recup # "none" /\ res.flame = "none")
    /\ [](pc = "m_send" => res.flame # "none" /\ res.send = "none")
    /\ [](pc = "m_track" =>
             /\ \A step \in {"ctrl", "press", "recup", "flame", "send"} :
                   res[step] # "none"
             /\ vals.ctrl = IF res.ctrl = "ok" THEN "read" ELSE "default"
             /\ vals.press = IF res.press = "ok" THEN "read" ELSE "null"
             /\ res.recup = "fail" =>
                   ~vals.recup_bottom_ok /\ ~vals.recup_top_ok
             /\ vals.flame = IF res.flame = "ok" THEN "analysis" ELSE "error")

\* C11 witness: all four reads failed and the record was still sent.
C11_Witness ==
    /\ pc = "m_track" /\ res.send = "sent"
    /\ res.ctrl = "fail" /\ res.press = "fail" /\ res.recup = "fail"
    /\ res.flame = "fail"

RECURSIVE SumSeq(_)
SumSeq(s) == IF s = <<>> THEN 0 ELSE s[1] + SumSeq(Tail(s))

\* C12: the watchdog is fed at the top of every iteration before the network
\* and sensor steps; the inter-cycle sleep is cut into chunks of at most
\* 0.5 s that add up to the interval, with one feed after each chunk; a feed
\* that raises changes nothing in the course of the iteration or the sleep.
C12_WatchdogFed ==
    /\ [](pc = "m_wifi" => Len(fed) = 1 /\ res.send # "sent")
    /\ [](pc \in {"m_control", "m_pressure", "m_recup", "m_flame", "m_send",
                   "m_track", "m_display"} => monitored)
    /\ [](pc = "m_sleep" =>
             /\ Len(fed) = Len(chunks)
             /\ SumSeq(chunks) + sleep_remaining = INTERVAL_MS
             /\ sleep_remaining > 0)
    /\ []((pc = "m_iter" /\ chunks # <<>>) =>
             /\ Len(fed) = Len(chunks)
             /\ SumSeq(chunks) = INTERVAL_MS)
    /\ [](\A k \in 1 .. Len(chunks) :
                chunks[k] > 0 /\ chunks[k] <= SLEEP_CHUNK_MS)
    /\ [][/\ pc = "m_iter" => pc' \in {"m_wifi"} \cup LeavesMonitor
          /\ pc' = "m_control" => pc = "m_wifi"
          /\ pc = "m_sleep" => pc' \in {"m_sleep", "m_iter"} \cup LeavesMonitor
          /\ (pc = "m_sleep" /\ pc' \in {"m_sleep", "m_iter"}) =>
                /\ Len(chunks') = Len(chunks) + 1
                /\ Len(fed') = Len(fed) + 1]_vars

\* C12 witness: a whole interval was slept in two chunks and both feeds
\* raised; the next iteration is about to start.
C12_Witness ==
    /\ pc = "m_iter"
    /\ chunks = <<SLEEP_CHUNK_MS, SLEEP_CHUNK_MS>>
    /\ fed = <<"raised", "raised">>

\* C13 (as claimed): while a subsystem is being brought up, fewer than
\* max_retries attempts have failed, and the k-th failed attempt (from 0) was
\* followed by a wait of 2^k seconds: the network link included.
C13_BackoffEveryBringUp ==
    pc \in {"init_wifi", "init_flame", "init_control", "init_recup"} =>
        /\ attempt < max_retries
        /\ Len(sleeps) = attempt
        /\ \A k \in 1 .. Len(sleeps) : sleeps[k] = 2 ^ (k - 1)

\* the thermocouple part of C14: the thermocouple stage of init never raises,
\* and with the bus down every record sent reports null temperatures and
\* null delta
RecupDegrades ==
    /\ [][pc = "init_recup" =>
             pc' \in {"init_recup", "init_udp", "stopped", "rm_normal",
                      "boot"}]_vars
    /\ []((pc = "m_track" /\ res.send = "sent" /\ ~fm.recup_spi) =>
             /\ TelemetryRecord(vals).bottom_f = "null"
             /\ TelemetryRecord(vals).top_f = "null"
             /\ TelemetryRecord(vals).delta_f = "null")

RECURSIVE TrailingFails(_)
TrailingFails(log) ==
    IF log = <<>> THEN 0
    ELSE IF log[Len(log)] # BusError THEN 0
    ELSE 1 + TrailingFails(SubSeq(log, 1, Len(log) - 1))

\* C15: capture aborts with the driver fault exactly when a failed read is
\* the 10th failed read in a row: never with 9 or fewer in a row, whatever
\* follows them, and a successful read starts the count again at 0.
C15_AbortAtTenthInARow ==
    a_call.op = "capture" =>
        /\ a_consec = TrailingFails(a_readlog)
        /\ (a_outcome = "driver_fault") <=>
               (TrailingFails(a_readlog) = CAPTURE_MAX_ERRORS)
        /\ \A k \in 0 .. Len(a_readlog) - 1 :
               TrailingFails(SubSeq(a_readlog, 1, k)) < CAPTURE_MAX_ERRORS
        /\ a_outcome = "driver_fault" => a_value = <<>> /\ a_restore = "none"

\* C15 witness: the first read succeeded, the ten reads after it failed and
\* the capture aborted at the last of them.
C15_Witness ==
    /\ a_pc = "done" /\ a_outcome = "driver_fault"
    /\ Len(a_readlog) = CAPTURE_MAX_ERRORS + 1
    /\ a_readlog[1] # BusError

\* the sample the claim expects at index i of a capture with this read log
RECURSIVE ExpectedSample(_, _, _)
ExpectedSample(log, i, gain) ==
    IF i = 0 THEN 0
    ELSE IF log[i] # BusError THEN Scaled(Signed(log[i]), gain)
    ELSE ExpectedSample(log, i - 1, gain)

\* C16: a capture that returns its samples has made exactly n conversion
\* reads, one per loop turn and nothing else on the bus in between, and
\* returns n samples in read order: the scaled value read, or for a failed
\* read the scaled value of the latest successful read before it (0.0 if
\* none).
C16_SamplesInReadOrder ==
    /\ []((a_call.op = "capture" /\ a_outcome = "samples") =>
             /\ Len(a_value) = a_call.samples
             /\ Len(a_readlog) = a_call.samples
             /\ \A i \in 1 .. a_call.samples :
                   a_value[i] = ExpectedSample(a_readlog, i, a_gain))
    /\ [][a_pc = "cap_loop" =>
             /\ Len(a_readlog') = Len(a_readlog) + 1
             /\ a_writes' = a_writes /\ ~a_polled'
             /\ a_pc' \in {"cap_loop", "cap_restore", "done"}]_vars

\* C16 witness: a long capture returned although its first read failed (no
\* good value yet) and a later read failed right after a successful one.
C16_Witness ==
    /\ a_pc = "done" /\ a_outcome = "samples"
    /\ a_call.samples = MaxSamples
    /\ a_readlog[1] = BusError
    /\ a_readlog[2] # BusError /\ a_readlog[3] # BusError
    /\ a_readlog[4] = BusError

\* C17 (as claimed): a capture whose restoring config write failed on the
\* bus still returns its n samples.
C17_RestoreFailureSwallowed ==
    (a_pc = "done" /\ a_call.op = "capture" /\ a_restore = "failed") =>
        a_outcome = "samples" /\ Len(a_value) = a_call.samples

\* the call in progress is a single-shot read
SingleShot == a_call.op \in {"read_raw", "read_differential_raw"}

\* the order of the bus transactions of a single-shot read: one config write
\* with the start bit, then polls, then one conversion read after a poll saw
\* the ready bit; a timeout returns nothing
SingleShotOrder ==
    SingleShot =>
        /\ Len(a_writes) <= 1 /\ Len(a_readlog) <= 1
        /\ a_polled =>
               Len(a_writes) = 1 /\ BitAnd(a_writes[1], OS_START) = OS_START
        /\ a_pc \in {"ss_poll", "ss_read"} => Len(a_writes) = 1
        /\ a_pc = "ss_read" => a_ready_at >= 0 /\ a_readlog = <<>>
        /\ a_readlog # <<>> => a_polled /\ a_ready_at >= 0
        /\ a_outcome = "value" =>
               Len(a_readlog) = 1 /\ a_value = <<Signed(a_readlog[1])>>
        /\ a_outcome = "timeout" =>
               a_value = <<>> /\ a_readlog = <<>> /\ a_ready_at = -1

\* C18 (as claimed): the order above, and a value is returned only if a poll
\* saw the ready bit within 200 ms; otherwise the call times out.
C18_ReadyWithinTimeout ==
    /\ SingleShotOrder
    /\ (SingleShot /\ a_outcome = "value") => a_ready_at <= WAIT_TIMEOUT_MS

\* C18 (amended): the order above; polling goes on only while no more than
\* 200 ms had passed when the last poll ended; the call times out exactly
\* when a poll that did not see the ready bit ends later than that; a poll
\* that sees the bit succeeds whenever it ends.
C18_TimeoutAfterBusyPoll ==
    /\ SingleShotOrder
    /\ (SingleShot /\ a_pc = "ss_poll") =>
           a_elapsed <= WAIT_TIMEOUT_MS + POLL_SLEEP_MS
    /\ (SingleShot /\ a_outcome = "timeout") =>
           a_pc = "done" /\ a_elapsed > WAIT_TIMEOUT_MS
    /\ (SingleShot /\ a_pc = "done" /\ a_polled) =>
           a_outcome \in {"value", "read_failed", "poll_failed", "timeout"}

\* C18 witness: a single-ended read polled past 200 ms without seeing the
\* ready bit and ended with the timeout error.
C18_Witness ==
    /\ a_pc = "done" /\ a_call.op = "read_raw" /\ a_outcome = "timeout"
    /\ a_elapsed > WAIT_TIMEOUT_MS

\* the four wired differential pairs
WiredPairs == {<<0, 1>>, <<0, 3>>, <<1, 3>>, <<2, 3>>}

\* C19: a differential read of a pair that is not wired ends with the
\* invalid-argument error before any bus transaction and leaves gain and
\* rate alone; a wired pair does get its config write.
C19_InvalidPairRejected ==
    /\ [](a_call.op = "read_differential_raw" =>
             IF <<a_call.pos, a_call.neg>> \in WiredPairs
             THEN Len(a_writes) = 1 /\ a_outcome # "ValueError"
             ELSE /\ a_pc = "done" /\ a_outcome = "ValueError"
                  /\ a_writes = <<>> /\ ~a_polled /\ a_readlog = <<>>
                  /\ a_value = <<>>)
    /\ [][a_call'.op = "read_differential_raw" =>
             a_gain' = a_gain /\ a_rate' = a_rate]_vars

\* C19 witness: the pair (1, 0) was refused on the converter set up with
\* the 2.048 V range.
C19_Witness ==
    /\ a_pc = "done" /\ a_call.op = "read_differential_raw"
    /\ a_call.pos = 1 /\ a_call.neg = 0
    /\ a_outcome = "ValueError" /\ a_gain = PGA_2048

\* C20 (as claimed): a single-ended read or a capture with a channel outside
\* 0..3 is refused before any bus transaction, and every config word such a
\* call writes selects the single-ended input that was asked for.
C20_InvalidChannelRejected ==
    a_call.op \in {"read_raw", "capture"} =>
        /\ a_call.channel \notin 0 .. 3 =>
               /\ a_writes = <<>> /\ ~a_polled /\ a_readlog = <<>>
               /\ a_outcome = "ValueError"
        /\ \A k \in 1 .. Len(a_writes) :
               MuxField(a_writes[k]) = 4 + a_call.channel

(***************************************************************************)
(* Telemetry (C23, C29, C30)                                               *)
(***************************************************************************)
\* the positions at which the iteration's send_data call has returned and
\* its values are still held
AfterSend == {"m_track", "m_display"} \cup InitPcs

\* C23: a send_data call that finds no socket, or finds the link down, hands
\* nothing to sendto, returns normally to the error tracking and leaves
\* loop_success alone; nothing is buffered: what an iteration sends is the
\* record of its own values, and it sends at most one.
C23_SkipSilently ==
    /\ [][(pc = "m_send" /\ pc' \notin LeavesMonitor) =>
             /\ ~fm.udp_sock => res'.send = "nosock"
             /\ res'.send \in {"nosock", "linkdown"} =>
                    /\ sent' = sent
                    /\ pc' = "m_track"
                    /\ loop_success' = loop_success]_vars
    /\ [](Len(sent) <= 1)
    /\ [](sent # <<>> =>
             /\ pc \in AfterSend /\ monitored
             /\ res.send = "sent"
             /\ sent = <<TelemetryRecord(vals)>>)
    /\ []((pc \in AfterSend /\ monitored /\ res.send # "sent") => sent = <<>>)

\* C23 witness: every read of the iteration succeeded, send_data found the
\* link down and sent nothing, and the iteration still counts as a success.
C23_Witness ==
    /\ pc = "m_track" /\ res.send = "linkdown"
    /\ res.ctrl = "ok" /\ res.flame = "ok"
    /\ loop_success /\ sent = <<>> /\ ~fm.wifi_connected

\* the control part of a record that carries a fault marker; "default" is
\* the 0.0, 0.0, 0.0 of monitor 702 and "read" the three numbers read
ControlMarkedAbsent(record) == record.control = "null"

\* C29 (as claimed): the record of an iteration whose control read failed
\* marks the control reading absent, and the record of an iteration whose
\* pressure read failed marks the pressure absent.
C29_FaultsMarkedAbsent ==
    (pc = "m_track" /\ sent # <<>>) =>
        /\ res.ctrl = "fail" => ControlMarkedAbsent(sent[1])
        /\ res.press = "fail" => sent[1].pressure = "null"

\* C30: in every record sent the delta is a number only if both probes
\* were read as connected in that iteration and each temperature only if
\* its own probe was; a probe without driver object, or whose read failed,
\* counts as disconnected.
C30_DeltaNeedsBothProbes ==
    /\ \A k \in 1 .. Len(sent) :
          /\ sent[k].delta_f = "value" =>
                 res.bottom = "connected" /\ res.top = "connected"
          /\ sent[k].bottom_f = "value" => res.bottom = "connected"
          /\ sent[k].top_f = "value" => res.top = "connected"
    /\ (pc \in {"m_flame", "m_send", "m_track"} /\ res.recup = "ok") =>
          /\ res.bottom = "absent" <=> ~fm.recup_bottom
          /\ res.top = "absent" <=> ~fm.recup_top
          /\ res.bottom \in {"absent", "read_failed"} =>
                 ~vals.recup_bottom_ok
          /\ res.top \in {"absent", "read_failed"} => ~vals.recup_top_ok
    /\ (pc \in {"m_flame", "m_send", "m_track"} /\ res.recup # "ok") =>
          ~vals.recup_bottom_ok /\ ~vals.recup_top_ok

\* C30 witness: the bottom probe was connected and the read of the top
\* probe failed; the record sent has the bottom temperature and no delta.
C30_Witness ==
    /\ pc = "m_track" /\ res.send = "sent"
    /\ res.bottom = "connected" /\ res.top = "read_failed"
    /\ sent = <<TelemetryRecord(vals)>>
    /\ sent[1].bottom_f = "value" /\ sent[1].top_f = "null"
    /\ sent[1].delta_f = "null"

(***************************************************************************)
(* Thermocouple driver (C21, C22)                                          *)
(***************************************************************************)
\* C21 (as claimed): two consecutive bus reads of one probe instance, failed
\* ones included, are at least 220 ms apart, and the wait before a read is
\* the rest of the 250 ms counted from that instance's own _last_read.
C21_ReadsSpacedApart ==
    /\ \A p \in Probes :
          t_probe[p].gap = -1 \/ t_probe[p].gap >= CONVERSION_MS
    /\ t_call.op = "read_safe" =>
          LET elapsed == t_call.start - t_call.since
          IN t_call.wait =
                IF elapsed >= MIN_READ_INTERVAL_MS THEN 0
                ELSE MIN_READ_INTERVAL_MS - elapsed

\* bit n of a 16-bit frame
Bit(raw, n) == (raw \div (2 ^ n)) % 2

\* C22: read_safe does not raise; it reports connected with the temperature
\* (raw >> 3) x 0.25 degrees C exactly when the bus read succeeded and bits
\* 15, 2 and 1 of the frame are 0, and temperature 0, not connected,
\* otherwise.
C22_ReadSafeTotal ==
    t_call.op = "read_safe" =>
        LET raw == t_call.frame
            valid == /\ raw # BusError
                     /\ Bit(raw, 15) = 0 /\ Bit(raw, 2) = 0
                     /\ Bit(raw, 1) = 0
        IN /\ ~t_call.raised
           /\ t_call.result.connected <=> valid
           /\ valid => 4 * t_call.result.temp_c = 100 * (raw \div 8)
           /\ ~valid => t_call.result.temp_c = 0 /\ t_call.result.temp_f = 0

\* C22 witness: the top probe returned the frame of 100 degrees C with the
\* undefined bit 0 set and read_safe reported 100.00 C, 212.00 F, connected.
C22_Witness ==
    /\ t_call.op = "read_safe" /\ t_call.probe = "top"
    /\ t_call.frame = 3201
    /\ t_call.result = [temp_c |-> 10000, temp_f |-> 21200,
                        connected |-> TRUE]

(***************************************************************************)
(* Flame classifier and derived measurements (C24 - C28)                   *)
(***************************************************************************)
\* the spectrum's RMS is at least 0.001: mean of m^2 >= 0.001^2, with the
\* magnitudes in units of 0.0005
RmsAtLeastFloor(spectrum) ==
    /\ Len(spectrum) > 0
    /\ SumSeq([i \in 1 .. Len(spectrum) |-> spectrum[i].m * spectrum[i].m])
          >= 4 * Len(spectrum)

\* the warning list holds w
Warns(result, w) == \E i \in 1 .. Len(result.warnings) : result.warnings[i] = w

\* C24: with RMS >= 0.001 the status follows from the flicker peak frequency
\* f alone (half hertz here): normal for 8 <= f <= 12 Hz, unstable and the
\* flame-lift warning for 0 < f < 5 Hz, check for any other f > 0,
\* no_signal and the no-flicker warning for f = 0; those two warnings come
\* with nothing else; the status is never left at 'unknown'.
C24_StatusFromFlicker ==
    s_op = "analyze_flame" =>
        /\ s_out.status \in {"normal", "unstable", "check", "no_signal"}
        /\ RmsAtLeastFloor(s_in) =>
              LET f == s_out.flicker_peak_freq
              IN /\ s_out.status =
                       IF f = 0 THEN "no_signal"
                       ELSE IF f >= 16 /\ f <= 24 THEN "normal"
                       ELSE IF f < 10 THEN "unstable"
                       ELSE "check"
                 /\ Warns(s_out, "flame lift") <=> (0 < f /\ f < 10)
                 /\ Warns(s_out, "no flicker") <=> f = 0
                 /\ ~Warns(s_out, "weak")

\* C24 witness: a spectrum above the floor whose flicker peak is at 5 Hz is
\* classified check, without warning.
C24_Witness ==
    /\ s_op = "analyze_flame" /\ RmsAtLeastFloor(s_in)
    /\ s_out.flicker_peak_freq = 10 /\ s_out.flicker_peak_mag = 2000
    /\ s_out.status = "check" /\ s_out.warnings = <<>>

\* C25: with RMS < 0.001 the result is no_signal with the signal-too-weak
\* warning and no other warning, whatever the peaks are.
C25_WeakSignalShortCircuit ==
    (s_op = "analyze_flame" /\ ~RmsAtLeastFloor(s_in)) =>
        /\ s_out.status = "no_signal"
        /\ Warns(s_out, "weak")
        /\ ~Warns(s_out, "flame lift") /\ ~Warns(s_out, "no flicker")

\* C25 witness: a flicker peak at 4.5 Hz and a larger thermoacoustic peak,
\* RMS below the floor: no_signal, only the weak-signal warning.
C25_Witness ==
    /\ s_op = "analyze_flame" /\ ~RmsAtLeastFloor(s_in)
    /\ s_out.flicker_peak_freq = 9 /\ s_out.flicker_peak_mag = 1
    /\ s_out.thermoacoustic_peak_mag = 2
    /\ s_out.status = "no_signal" /\ s_out.warnings = <<"weak">>

\* C26 (as claimed): the thermoacoustic warning is in the result exactly
\* when the thermoacoustic peak magnitude exceeds half the flicker peak
\* magnitude, whatever the status.
C26_ThermoWarningAlways ==
    s_op = "analyze_flame" =>
        (Warns(s_out, "thermoacoustic") <=>
            2 * s_out.thermoacoustic_peak_mag > s_out.flicker_peak_mag)

\* C26 (amended): with RMS >= 0.001 the thermoacoustic warning is in the
\* result exactly when the thermoacoustic peak magnitude exceeds half the
\* flicker peak magnitude, for each of the four statuses; with RMS < 0.001
\* it is never there.
C26_ThermoWarningAboveFloor ==
    s_op = "analyze_flame" =>
        IF RmsAtLeastFloor(s_in)
        THEN Warns(s_out, "thermoacoustic") <=>
                2 * s_out.thermoacoustic_peak_mag > s_out.flicker_peak_mag
        ELSE ~Warns(s_out, "thermoacoustic")

\* C26 witness: flicker peak 1.0 at 8 Hz and thermoacoustic peak 0.6 at
\* 30 Hz: normal, with the thermoacoustic warning.
C26_Witness ==
    /\ s_op = "analyze_flame"
    /\ s_out.flicker_peak_freq = 16 /\ s_out.flicker_peak_mag = 2000
    /\ s_out.thermoacoustic_peak_freq = 60
    /\ s_out.thermoacoustic_peak_mag = 1200
    /\ s_out.status = "normal" /\ s_out.warnings = <<"thermoacoustic">>

\* C27: read_control_signal raises the out-of-range error exactly for a
\* voltage below -0.1 V or above 2.5 V; otherwise mA = V / 100 x 1000 and
\* the percent is 0 below 4 mA, 100 above 20 mA and (mA - 4) / 16 x 100
\* between: within [0, 100], non-decreasing in the voltage, and 1.2 V gives
\* 12 mA and 50 %.  (mV, 0.01 mA and 1/16 % here.)
C27_ControlMapping ==
    (s_op = "read_control_signal" /\ s_in.driver_ok) =>
        LET v == s_in.mv
        IN /\ s_out.raised = "ValueError" <=> (v < -100 \/ v > 2500)
           /\ s_out.raised \in {"ValueError", "none"}
           /\ s_out.raised = "none" =>
                 /\ s_out.voltage = v
                 /\ 1000 * s_out.ma = 100 * (10 * v)
                 /\ s_out.percent =
                       IF s_out.ma < 400 THEN 0
                       ELSE IF s_out.ma > 2000 THEN 1600
                       ELSE s_out.ma - 400
                 /\ 0 <= s_out.percent /\ s_out.percent <= 1600
                 /\ v = 1200 => s_out.ma = 1200 /\ s_out.percent = 50 * 16
                 /\ (/\ s_prev.op = "read_control_signal"
                     /\ s_prev.out.raised = "none") =>
                       /\ s_prev.in.mv <= v =>
                              s_prev.out.percent <= s_out.percent
                       /\ s_prev.in.mv >= v =>
                              s_prev.out.percent >= s_out.percent

\* C27 witness: after a read of 3.0 V was refused, 1.2 V reads as 12 mA and
\* 50 %.
C27_Witness ==
    /\ s_op = "read_control_signal" /\ s_in.driver_ok /\ s_in.mv = 1200
    /\ s_out.raised = "none" /\ s_out.ma = 1200 /\ s_out.percent = 800
    /\ s_prev.op = "read_control_signal" /\ s_prev.in.mv = 3000
    /\ s_prev.out.raised = "ValueError"

\* what C28 says of one channel: absent exactly outside [0.4 V, 4.6 V],
\* otherwise (V - 0.5) / 4.0 x 5 PSI clamped to [0, 5]  (mV and 1/4000 PSI)
ChannelAsClaimed(mv, reading) ==
    /\ reading.absent <=> (mv < 400 \/ mv > 4600)
    /\ ~reading.absent =>
          /\ reading.psi = IF 5 * (mv - 500) < 0 THEN 0
                            ELSE IF 5 * (mv - 500) > 20000 THEN 20000
                            ELSE 5 * (mv - 500)
          /\ 0 <= reading.psi /\ reading.psi <= 20000
    /\ mv = 2500 => ~reading.absent /\ reading.psi = 10000
    /\ mv = 5000 => reading.absent

\* C28: each pressure channel is as claimed from its own voltage, whatever
\* the other channel's voltage is.
C28_PressureMapping ==
    (s_op = "read_pressure_sensors" /\ s_in.fails = "none") =>
        /\ s_out.raised = "none"
        /\ ChannelAsClaimed(s_in.v1, s_out.psi1)
        /\ ChannelAsClaimed(s_in.v2, s_out.psi2)

\* C28 witness: 5.0 V on the first channel is a fault and 2.5 V on the
\* second is 2.5 PSI.
C28_Witness ==
    /\ s_op = "read_pressure_sensors" /\ s_in.fails = "none"
    /\ s_in.v1 = 5000 /\ s_in.v2 = 2500
    /\ s_out.psi1.absent /\ ~s_out.psi2.absent /\ s_out.psi2.psi = 10000

(***************************************************************************)
(* C31..C40                                                                *)
(***************************************************************************)
\* what C31 asks of a credential: read, not the placeholder, 4 to 9 long
GoodCredential(p) ==
    /\ p \notin {"none", "missing", "CHANGEME"}
    /\ 4 <= PassLen(p) /\ PassLen(p) <= 9

\* C31: in FAILSAFE the recovery channel is started only with a credential
\* that is not the placeholder and is 4 to 9 characters long; with any other
\* credential, or when reading it fails, the channel stays off, and the boot
\* reaches the watchdog-feeding loop either way.
C31_FailsafeCredentialGate ==
    /\ [](pc \in FailsafePcs /\ webrepl_started => GoodCredential(credential))
    /\ [][pc = "fs_net" /\ pc' # "boot" =>
             /\ pc' = "fs_loop"
             /\ ~GoodCredential(credential') => ~webrepl_started']_vars

\* C31 witness: the credential could not be read and the boot is in the
\* feeding loop with the channel off.
C31_Witness ==
    pc = "fs_loop" /\ credential = "missing" /\ ~webrepl_started

\* N is 2^k for some k >= 0
RECURSIVE PowerOfTwo(_)
PowerOfTwo(n) ==
    IF n <= 0 THEN FALSE
    ELSE IF n = 1 THEN TRUE
    ELSE n % 2 = 0 /\ PowerOfTwo(n \div 2)

\* C32 (as claimed): _fft fails with the invalid-argument error for every
\* length that is not a power of two, 0 included, and accepts every 2^k.
C32_FftRejectsNonPowers ==
    s_op = "_fft" =>
        IF PowerOfTwo(s_in.n)
        THEN s_out.raised = "none" /\ s_out.len = s_in.n
        ELSE s_out.raised = "ValueError"

\* bins of the spectrum with lo <= f <= hi (Hz)
BandBins(spectrum, lo, hi) ==
    {i \in 1 .. Len(spectrum) :
        2 * lo <= spectrum[i].f /\ spectrum[i].f <= 2 * hi}

\* what C36 says of one band: the greatest magnitude and the lowest
\* frequency that has it, or 0 and 0
PeakAsClaimed(spectrum, lo, hi, freq, mag) ==
    LET band == BandBins(spectrum, lo, hi)
    IN IF \A i \in band : spectrum[i].m = 0
       THEN freq = 0 /\ mag = 0
       ELSE \E i \in band :
               /\ spectrum[i].m = mag /\ spectrum[i].f = freq
               /\ \A j \in band :
                     /\ spectrum[j].m <= mag
                     /\ spectrum[j].m = mag => spectrum[j].f >= freq

\* C36: the flicker peak is the largest bin within [1, 20] Hz and the
\* thermoacoustic peak the largest within [30, 400] Hz, bounds included;
\* of equal largest bins the lowest-frequency one is reported, and a band
\* with no bin or only zero bins reports frequency 0 and magnitude 0.
C36_BandPeaks ==
    s_op = "analyze_flame" =>
        /\ PeakAsClaimed(s_in, 1, 20, s_out.flicker_peak_freq,
                         s_out.flicker_peak_mag)
        /\ PeakAsClaimed(s_in, 30, 400, s_out.thermoacoustic_peak_freq,
                         s_out.thermoacoustic_peak_mag)

\* C36 witness: two flicker bins of the same largest magnitude, at 8 Hz and
\* at 20 Hz; the one at 8 Hz is reported.
C36_Witness ==
    /\ s_op = "analyze_flame" /\ Len(s_in) = 2
    /\ s_in[1].f = 16 /\ s_in[2].f = 40
    /\ s_in[1].m = 1200 /\ s_in[2].m = 1200
    /\ s_out.flicker_peak_freq = 16 /\ s_out.flicker_peak_mag = 1200

\* C33 (as claimed): when the supervisor is back at the top of its loop after
\* a crash, the watchdog was fed more than once since cleanup: during the
\* 5 s wait and not only before it.
C33_FedDuringRestartWait ==
    (pc = "rm_top" /\ cleanup_ran) => Len(fed) >= 2

\* C34 (as claimed): the operator stop ends monitor() only between whole
\* iterations: monitor() is left for the stop only from the top of an
\* iteration or from the inter-cycle sleep, never from the middle of a read,
\* a capture, a send or a re-initialization.
C34_StopBetweenIterations ==
    [][(stop_seen' /\ ~stop_seen /\ pc \in MonitorPcs \cup InitPcs
            /\ pc' = "rm_normal") =>
          pc \in {"m_iter", "m_sleep"}]_vars

\* C35 (as claimed): the stored counter always stays within 0..4.
C35_CounterWithinFour ==
    ReadBootCount(rtc_mem, TRUE) <= 4

\* C35 (amended): as long as every counter read and every clearing write
\* succeeds and no reset falls between the counter write and the clearing
\* write of a boot that is entering FAILSAFE, the stored counter stays within
\* 0..4, FAILSAFE is entered on exactly the 4th boot after the counter was
\* last cleared and a normal boot is attempted on each of the 3 before it,
\* and a FAILSAFE boot leaves the count at 0 for the boot after it.
C35_FailsafeEveryFourthBoot ==
    /\ [](streak # Upset =>
             /\ streak \in 0 .. 4
             /\ ReadBootCount(rtc_mem, TRUE) <= 4)
    /\ [][(pc = "boot_check" /\ pc' # "boot" /\ streak # Upset) =>
             /\ pc' = "fs_net" <=> streak = 4
             /\ pc' = "boot_net" <=> streak \in 1 .. 3]_vars
    /\ [][(pc \in FailsafePcs /\ pc' = "boot") =>
             streak' = 0 /\ rtc_mem' = ZeroBytes]_vars
    /\ [][(pc = "boot" /\ streak = 0 /\ streak' # Upset) =>
             streak' = 1 /\ boot_count' = 1]_vars

\* C35 witness: three normal boots were reset before init completed and the
\* 4th boot is in the failsafe loop with the counter cleared.
C35_Witness ==
    /\ pc = "fs_loop" /\ boot_count = 4 /\ streak = 0
    /\ rtc_mem = ZeroBytes

\* C37 (as claimed): a capture that has set continuous mode ends, on every
\* path, with a config write that selects single-shot mode having been
\* attempted.
C37_SingleShotRestoreAttempted ==
    (/\ a_pc = "done" /\ a_call.op = "capture"
     /\ ~(a_outcome = "write_failed" /\ Len(a_writes) = 1)) =>
        /\ a_restore # "none"
        /\ Len(a_writes) = 2
        /\ BitAnd(a_writes[2], MODE_SINGLE) = MODE_SINGLE

\* C38 (as claimed): in a cycle whose reconnect attempt brought the link back
\* up, and in the cycles after it, send_data is not skipped for want of a
\* socket: telemetry resumes without a crash restart or a re-initialization.
C38_SendsResumeAfterReconnect ==
    (pc = "m_track" /\ res.wifi = "up") => res.send # "nosock"

\* the crash-restart cycle of run_monitor: init, handler, cleanup, delay
CrashCyclePcs == InitPcs \cup {"rm_top", "rm_crash", "rm_cleanup", "rm_delay"}

\* C40: no step of the crash-restart cycle (a failing init, the handler,
\* cleanup, the restart delay, the next init) writes the persisted counter,
\* so while no init has completed it holds the number of this boot, and
\* FAILSAFE is entered only by the boot branch, after a device reset.
C40_CrashCycleKeepsCounter ==
    /\ [][(pc \in CrashCyclePcs) => (rtc_mem' = rtc_mem)]_vars
    /\ []((pc \in CrashCyclePcs /\ streak \notin {0, Upset}) =>
             /\ rtc_mem = StrEncode(streak)
             /\ streak <= FAILSAFE_BOOTS)
    /\ [][(pc' \in FailsafePcs /\ pc \notin FailsafePcs) =>
             pc = "boot_check" /\ restart_count = 0]_vars
    /\ [][(pc = "rm_delay" /\ pc' \notin {"stopped", "boot"}) =>
             pc' = "rm_top"]_vars

\* C40 witness: on the second boot init raised, the handler ran cleanup and
\* the delay, and the supervisor is about to start init again with the
\* counter still 2.
C40_Witness ==
    /\ pc = "rm_top" /\ restart_count = 1 /\ cleanup_ran /\ ~monitored
    /\ rtc_mem = StrEncode(2) /\ streak = 2

\* C39 (as claimed): with the longest step durations the code allows, the
\* time since run_monitor armed the watchdog or last fed it never reaches
\* the 30 s timeout.
C39_WatchdogNeverStarved ==
    w_unfed < 30000

====
